---- MODULE Spec2Model ----
(***************************************************************************)
(* Duplicate detection and cleanup engine of the dark web scraper:         *)
(*   deduplication/smart_deduplicator.py  BloomFilter, SmartDeduplicator   *)
(*   deduplication/cleanup_duplicates.py  DuplicateCleanup                 *)
(* URLs are the integers 1..NumUrls.  A strategy string is the set of the  *)
(* tier names that occur in it ("bloom_and_db" is {"bloom", "db"}), since  *)
(* the code only ever asks whether "bloom", "redis" or "db" is a substring *)
(* of it.                                                                  *)
(***************************************************************************)
EXTENDS Integers, Sequences, FiniteSets, TLC

\* ------------------------------------------------------------------ bounds
\* Number of distinct URLs.
NumUrls == 2
\* Longest list handed to filter_new_urls.
MaxBatch == 2
\* Capacity the Bloom filter is built for (the code's default is 1000000).
Capacity == 1
\* Number of distinct items added to a Bloom filter used on its own.
NumItems == 4
\* Number of documents in the index before a cleanup.
MaxDocs == 3
\* Ids per bulk request (the code passes chunk_size=100).
ChunkSize == 1
\* Hits a search returns at most (the code asks for "size": 10000).
SearchSize == 2
\* Documents find_similar_content compares without sampling (1000 in the code).
SampleCap == 3

Urls == 1..NumUrls
\* Python's None; an optional object is <<>> or <<object>>.
None == <<>>
Tiers == {"bloom", "redis", "db"}

VARIABLES
    dedup,          \* process -> its SmartDeduplicator object
    scraped_urls,   \* the Redis set "scraped_urls", shared by all processes
    index_urls,     \* URLs that have a document in the OpenSearch index
    submitted,      \* process -> URLs handed to filter_new_urls so far
    classified_new, \* process -> URLs filter_new_urls has classified new so far
    last            \* the last call: its arguments and its outcome

dedupVars == <<dedup, scraped_urls, index_urls, submitted, classified_new, last>>

VARIABLES
    bloom,          \* a BloomFilter object used on its own
    added,          \* the items add() was called with on it
    answer,         \* the last contains() call on it: item and result
    bloom_file      \* the snapshot file save_to_file() wrote, if any

bloomVars == <<bloom, added, answer, bloom_file>>

VARIABLES
    threads         \* thread -> its position inside a filter_new_urls call

concVars == <<threads>>

VARIABLES
    store,          \* the OpenSearch index: document id -> document
    run,            \* the last run_cleanup call: its arguments and its outcome
    request         \* the request an entry point is serving, and how it ended

cleanupVars == <<store, run, request>>

VARIABLES
    report          \* the last analysis call and what it returned

analyzerVars == <<report>>

VARIABLES
    clock,          \* days gone by since the Redis key was first written
    key_expires,    \* the day the Redis key "scraped_urls" expires, if it has a TTL
    marked_at       \* url -> the day it was last added to the Redis set, if ever

cacheVars == <<clock, key_expires, marked_at>>

VARIABLES
    files,          \* the working directory: what save_state() last wrote to each file
    restored        \* the process was started after the last save_state()

restartVars == <<files, restored>>

VARIABLES
    spider,         \* the TorSpider object: failed_urls and retry_counts
    scheduled,      \* url -> requests for it the scheduler holds
    seen,           \* URLs the scheduler's duplicate filter has let through
    retried,        \* url -> requests handle_error has issued for it so far
    handled         \* the last callback or errback call and the requests it yielded

spiderVars == <<spider, scheduled, seen, retried, handled>>

vars == <<dedupVars, bloomVars, concVars, cleanupVars, analyzerVars, cacheVars, restartVars, spiderVars>>

\* -------------------------------------------------------------- BloomFilter
\* BloomFilter.__init__ with error_rate = 0.1:
\*   bit_array_size = int(-capacity * ln(0.1) / ln(2)^2), -ln(0.1)/ln(2)^2 = 4.792529
\*   hash_count     = int(bit_array_size * ln(2) / capacity),       ln(2) = 0.693147
BloomFilterNew(capacity) ==
    LET size == (capacity * 4792529) \div 1000000
        k    == (size * 693147) \div (capacity * 1000000)
    IN  [capacity       |-> capacity,
         error_rate     |-> <<1, 10>>,
         bit_array_size |-> size,
         hash_count     |-> k,
         bit_array      |-> [i \in 0..(size - 1) |-> 0]]

\* Stand-in for int(md5(f"{item}{seed}").hexdigest(), 16): a fixed function of
\* (item, seed) under which the index sets of two items may overlap, coincide
\* or be disjoint once reduced modulo the array size.
Digest(item, seed) == 2 * item * (seed + 1) + 1

\* BloomFilter._hash
bloom_hash(bf, item, seed) == Digest(item, seed) % bf.bit_array_size

\* add() that stops after the first hash function.
add_first_seed_only(bf, item) ==
    [bf EXCEPT !.bit_array =
        [i \in DOMAIN bf.bit_array |->
            IF bloom_hash(bf, item, 0) = i THEN 1 ELSE bf.bit_array[i]]]

\* add() that inverts the bits it reaches instead of setting them.
add_flips_bits(bf, item) ==
    [bf EXCEPT !.bit_array =
        [i \in DOMAIN bf.bit_array |->
            IF \E seed \in 0..(bf.hash_count - 1) : bloom_hash(bf, item, seed) = i
            THEN 1 - bf.bit_array[i] ELSE bf.bit_array[i]]]

\* BloomFilter.add
add(bf, item) ==
    [bf EXCEPT !.bit_array =
        [i \in DOMAIN bf.bit_array |->
            IF \E seed \in 0..(bf.hash_count - 1) : bloom_hash(bf, item, seed) = i
            THEN 1 ELSE bf.bit_array[i]]]

\* BloomFilter.contains
contains(bf, item) ==
    \A seed \in 0..(bf.hash_count - 1) :
        bf.bit_array[bloom_hash(bf, item, seed)] # 0

\* json.dump / json.load of a float: its shortest repr and back.
float_repr(x) == CASE x = <<1, 10>> -> "0.1" [] x = <<1, 100>> -> "0.01"
float_parse(text) == CASE text = "0.1" -> <<1, 10>> [] text = "0.01" -> <<1, 100>>

\* The value of a key in a JSON object, given as its list of (key, value) pairs.
json_get(object, key) ==
    object[CHOOSE k \in 1..Len(object) : object[k][1] = key][2]

\* BloomFilter.save_to_file: the JSON object json.dump writes, its keys in
\* insertion order, the bit array as a JSON list.
save_to_file(bf) ==
    <<<<"capacity", bf.capacity>>,
      <<"error_rate", float_repr(bf.error_rate)>>,
      <<"bit_array_size", bf.bit_array_size>>,
      <<"hash_count", bf.hash_count>>,
      <<"bit_array", [k \in 1..bf.bit_array_size |-> bf.bit_array[k - 1]]>>>>

\* load_from_file() that returns the filter as constructed, without the bits
\* of the file.
load_from_file_drops_bits(data) ==
    [BloomFilterNew(json_get(data, "capacity")) EXCEPT
        !.error_rate = float_parse(json_get(data, "error_rate")),
        !.bit_array_size = json_get(data, "bit_array_size"),
        !.hash_count = json_get(data, "hash_count")]

\* BloomFilter.load_from_file: cls(capacity, error_rate), then the three
\* attributes of the file assigned over the constructed ones.
load_from_file(data) ==
    LET bits == json_get(data, "bit_array")
    IN  [BloomFilterNew(json_get(data, "capacity")) EXCEPT
            !.error_rate = float_parse(json_get(data, "error_rate")),
            !.bit_array_size = json_get(data, "bit_array_size"),
            !.hash_count = json_get(data, "hash_count"),
            !.bit_array = [i \in 0..(Len(bits) - 1) |-> bits[i + 1]]]

\* --------------------------------------------------------- SmartDeduplicator
\* SmartDeduplicator.__init__: redis_ok says that a redis_url was given and
\* the ping succeeded; the OpenSearch client constructor opens no connection.
SmartDeduplicatorNew(strategy, redis_ok) ==
    [strategy          |-> strategy,
     bloom_filter      |-> IF "bloom" \in strategy THEN <<BloomFilterNew(Capacity)>> ELSE None,
     redis_client      |-> ("redis" \in strategy) /\ redis_ok,
     opensearch_client |-> "db" \in strategy,
     url_cache         |-> {}]

\* SmartDeduplicator._check_url_in_database: a term query on url.keyword;
\* a failed search is caught and answers False.
check_url_in_database(index, url, down) ==
    IF "db" \in down THEN FALSE ELSE url \in index

\* is_url_scraped() in which an absent answer of the Bloom filter does not end
\* the check.
is_url_scraped_no_short_circuit(d, redis, index, url, down) ==
    LET useBloom == ("bloom" \in d.strategy) /\ d.bloom_filter # None
        useRedis == ("redis" \in d.strategy) /\ d.redis_client
        useDb    == ("db" \in d.strategy) /\ d.opensearch_client
        c1 == IF useBloom THEN <<"bloom">> ELSE <<>>
        c2 == IF useRedis THEN Append(c1, "redis") ELSE c1
    IN  IF useRedis /\ "redis" \notin down /\ url \in redis
        THEN [result |-> TRUE, consulted |-> c2]
        ELSE IF url \in d.url_cache
        THEN [result |-> TRUE, consulted |-> Append(c2, "local")]
        ELSE IF useDb
        THEN [result    |-> IF "db" \in down THEN FALSE ELSE url \in index,
              consulted |-> c2 \o <<"local", "db">>]
        ELSE [result |-> FALSE, consulted |-> Append(c2, "local")]

\* is_url_scraped() without the try/except around sismember: a failure of the
\* shared cache ends the check with "not scraped".
is_url_scraped_redis_failure_ends(d, redis, index, url, down) ==
    LET useBloom == ("bloom" \in d.strategy) /\ d.bloom_filter # None
        useRedis == ("redis" \in d.strategy) /\ d.redis_client
        useDb    == ("db" \in d.strategy) /\ d.opensearch_client
        c1 == IF useBloom THEN <<"bloom">> ELSE <<>>
        c2 == IF useRedis THEN Append(c1, "redis") ELSE c1
    IN  IF useBloom /\ ~contains(d.bloom_filter[1], url)
        THEN [result |-> FALSE, consulted |-> c1]
        ELSE IF useRedis /\ "redis" \in down
        THEN [result |-> FALSE, consulted |-> c2]
        ELSE IF useRedis /\ url \in redis
        THEN [result |-> TRUE, consulted |-> c2]
        ELSE IF url \in d.url_cache
        THEN [result |-> TRUE, consulted |-> Append(c2, "local")]
        ELSE IF useDb
        THEN [result    |-> check_url_in_database(index, url, down),
              consulted |-> c2 \o <<"local", "db">>]
        ELSE [result |-> FALSE, consulted |-> Append(c2, "local")]

\* SmartDeduplicator.is_url_scraped.  `down` is the set of services whose
\* calls raise during this call.  The answer comes with the list of tiers that
\* were consulted to reach it.
is_url_scraped(d, redis, index, url, down) ==
    LET useBloom == ("bloom" \in d.strategy) /\ d.bloom_filter # None
        useRedis == ("redis" \in d.strategy) /\ d.redis_client
        useDb    == ("db" \in d.strategy) /\ d.opensearch_client
        c1 == IF useBloom THEN <<"bloom">> ELSE <<>>
        c2 == IF useRedis THEN Append(c1, "redis") ELSE c1
    IN  IF useBloom /\ ~contains(d.bloom_filter[1], url)
        THEN [result |-> FALSE, consulted |-> c1]
        ELSE IF useRedis /\ "redis" \notin down /\ url \in redis
        THEN [result |-> TRUE, consulted |-> c2]
        ELSE IF url \in d.url_cache
        THEN [result |-> TRUE, consulted |-> Append(c2, "local")]
        ELSE IF useDb
        THEN [result    |-> check_url_in_database(index, url, down),
              consulted |-> c2 \o <<"local", "db">>]
        ELSE [result |-> FALSE, consulted |-> Append(c2, "local")]

\* mark_url_scraped() that forgets the local set.
mark_url_scraped_skips_local(d, redis, url, down) ==
    [d     |-> [d EXCEPT !.bloom_filter = IF @ # None THEN <<add(@[1], url)>> ELSE @],
     redis |-> IF d.redis_client /\ "redis" \notin down
               THEN redis \cup {url} ELSE redis]

\* mark_url_scraped() that forgets the Bloom filter.
mark_url_scraped_skips_bloom(d, redis, url, down) ==
    [d     |-> [d EXCEPT !.url_cache = @ \cup {url}],
     redis |-> IF d.redis_client /\ "redis" \notin down
               THEN redis \cup {url} ELSE redis]

\* SmartDeduplicator.mark_url_scraped: the new object and the new Redis set.
mark_url_scraped(d, redis, url, down) ==
    [d     |-> [d EXCEPT !.url_cache = @ \cup {url},
                         !.bloom_filter = IF @ # None THEN <<add(@[1], url)>> ELSE @],
     redis |-> IF d.redis_client /\ "redis" \notin down
               THEN redis \cup {url} ELSE redis]

\* SmartDeduplicator.filter_new_urls, the loop over the rest of the list.
RECURSIVE filter_loop(_, _, _, _, _, _, _)
filter_loop(d, redis, index, urls, down, new_urls, verdicts) ==
    IF urls = <<>>
    THEN [d |-> d, redis |-> redis, new_urls |-> new_urls, verdicts |-> verdicts]
    ELSE LET url == Head(urls)
         IN  IF ~is_url_scraped(d, redis, index, url, down).result
             THEN LET m == mark_url_scraped(d, redis, url, down)
                  IN  filter_loop(m.d, m.redis, index, Tail(urls), down,
                                  Append(new_urls, url), Append(verdicts, "new"))
             ELSE filter_loop(d, redis, index, Tail(urls), down,
                              new_urls, Append(verdicts, "duplicate"))

\* filter_new_urls() that classifies the whole list first and marks afterwards.
RECURSIVE mark_all(_, _, _, _)
mark_all(d, redis, urls, down) ==
    IF urls = <<>> THEN [d |-> d, redis |-> redis]
    ELSE LET m == mark_url_scraped(d, redis, Head(urls), down)
         IN  mark_all(m.d, m.redis, Tail(urls), down)

filter_new_urls_marks_at_end(d, redis, index, urls, down) ==
    LET isNew(url) == ~is_url_scraped(d, redis, index, url, down).result
        new_urls == SelectSeq(urls, isNew)
        m == mark_all(d, redis, new_urls, down)
    IN  [d |-> m.d, redis |-> m.redis, new_urls |-> new_urls,
         verdicts |-> [i \in 1..Len(urls) |->
                          IF isNew(urls[i]) THEN "new" ELSE "duplicate"]]

filter_new_urls(d, redis, index, urls, down) ==
    filter_loop(d, redis, index, urls, down, <<>>, <<>>)

\* Lists of at most MaxBatch URLs.
Batches == UNION {[1..n -> Urls] : n \in 0..MaxBatch}
\* The services a deduplicator calls, any of which may be failing.
Services(d) ==
    (IF d.redis_client THEN {"redis"} ELSE {})
    \cup (IF d.opensearch_client THEN {"db"} ELSE {})

NoCall == [op |-> "none"]

\* What a step of one component leaves alone, and the other components at rest.
DedupFrame == UNCHANGED <<bloomVars, concVars, cleanupVars, analyzerVars, cacheVars, restartVars, spiderVars>>
BloomFrame == UNCHANGED <<dedupVars, concVars, cleanupVars, analyzerVars, cacheVars, restartVars, spiderVars>>
ConcFrame == UNCHANGED <<bloomVars, cleanupVars, analyzerVars, submitted, classified_new, last, cacheVars, restartVars, spiderVars>>
CleanupFrame == UNCHANGED <<dedupVars, bloomVars, concVars, analyzerVars, cacheVars, restartVars, spiderVars>>
AnalyzerFrame == UNCHANGED <<dedupVars, bloomVars, concVars, cleanupVars, cacheVars, restartVars, spiderVars>>
DedupIdle ==
    /\ dedup = [p \in {1} |-> SmartDeduplicatorNew({}, FALSE)]
    /\ scraped_urls = {}
    /\ index_urls = {}
    /\ submitted = [p \in {1} |-> {}]
    /\ classified_new = [p \in {1} |-> {}]
    /\ last = NoCall
BloomIdle ==
    /\ bloom = None
    /\ added = {}
    /\ answer = None
    /\ bloom_file = None
ConcIdle == threads = <<>>
CacheIdle ==
    /\ clock = 0
    /\ key_expires = None
    /\ marked_at = <<>>
NoFiles == [url_bloom_filter |-> None, url_cache |-> None]
RestartIdle ==
    /\ files = NoFiles
    /\ restored = FALSE
SpiderIdle ==
    /\ spider = [failed_urls |-> {}, retry_counts |-> <<>>]
    /\ scheduled = <<>>
    /\ seen = {}
    /\ retried = <<>>
    /\ handled = None
CleanupIdle ==
    /\ store = <<>>
    /\ run = None
    /\ request = None
    /\ report = None

\* One crawl process after construction.  The shared cache and the index hold
\* whatever other workers and earlier sessions left there; a service the
\* deduplicator has no client for is never read or written and is left empty.
InitDedup ==
    /\ \E strategy \in SUBSET Tiers, redis_ok \in BOOLEAN :
          dedup = [p \in {1} |-> SmartDeduplicatorNew(strategy, redis_ok)]
    /\ scraped_urls \in (IF dedup[1].redis_client THEN SUBSET Urls ELSE {{}})
    /\ index_urls \in (IF dedup[1].opensearch_client THEN SUBSET Urls ELSE {{}})
    /\ submitted = [p \in {1} |-> {}]
    /\ classified_new = [p \in {1} |-> {}]
    /\ last = NoCall
    /\ BloomIdle
    /\ SpiderIdle
    /\ RestartIdle
    /\ CacheIdle
    /\ ConcIdle
    /\ CleanupIdle

\* A caller asks is_url_scraped(url).
IsUrlScraped(p, url) ==
    /\ last = NoCall
    /\ \E down \in SUBSET Services(dedup[p]) :
        LET r == is_url_scraped(dedup[p], scraped_urls, index_urls, url, down)
        IN  /\ last' = [op |-> "is_url_scraped", proc |-> p, url |-> url, down |-> down,
                        result |-> r.result, consulted |-> r.consulted]
            /\ UNCHANGED <<dedup, scraped_urls, index_urls, submitted, classified_new>>
            /\ DedupFrame

\* A caller hands a list to filter_new_urls.
FilterNewUrls(p, urls) ==
    /\ last = NoCall
    /\ \E down \in SUBSET Services(dedup[p]) :
        LET r == filter_new_urls(dedup[p], scraped_urls, index_urls, urls, down)
        IN  /\ dedup' = [dedup EXCEPT ![p] = r.d]
            /\ scraped_urls' = r.redis
            /\ submitted' = [submitted EXCEPT ![p] = @ \cup {urls[i] : i \in 1..Len(urls)}]
            /\ classified_new' = [classified_new EXCEPT ![p] =
                    @ \cup {r.new_urls[i] : i \in 1..Len(r.new_urls)}]
            /\ last' = [op |-> "filter_new_urls", proc |-> p, urls |-> urls, down |-> down,
                        new_urls |-> r.new_urls, verdicts |-> r.verdicts]
            /\ UNCHANGED index_urls
            /\ DedupFrame

\* The call returns to its caller, which goes on to its next call.
Return ==
    /\ last # NoCall
    /\ last' = NoCall
    /\ UNCHANGED <<dedup, scraped_urls, index_urls, submitted, classified_new>>
    /\ DedupFrame

NextDedup ==
    \/ Return
    \/ \E p \in DOMAIN dedup, url \in Urls : IsUrlScraped(p, url)
    \/ \E p \in DOMAIN dedup, urls \in Batches : FilterNewUrls(p, urls)

Spec == InitDedup /\ [][NextDedup]_vars

\* ------------------------------------------------ a BloomFilter on its own
Items == 1..NumItems

InitBloom ==
    /\ \E capacity \in 1..(Capacity + 1) : bloom = <<BloomFilterNew(capacity)>>
    /\ added = {}
    /\ answer = None
    /\ bloom_file = None
    /\ DedupIdle
    /\ SpiderIdle
    /\ RestartIdle
    /\ CacheIdle
    /\ ConcIdle
    /\ CleanupIdle

\* add(item)
Add(item) ==
    /\ bloom' = <<add(bloom[1], item)>>
    /\ added' = added \cup {item}
    /\ answer' = None
    /\ UNCHANGED bloom_file
    /\ BloomFrame

\* contains(item)
Contains(item) ==
    /\ answer' = <<[item |-> item, result |-> contains(bloom[1], item)]>>
    /\ UNCHANGED <<bloom, added, bloom_file>>
    /\ BloomFrame

\* save_to_file("url_bloom_filter.json"); the file is written anew.  `items`
\* remembers what had been added to the filter that was saved.
SaveToFile ==
    /\ bloom_file' = <<[data |-> save_to_file(bloom[1]), items |-> added]>>
    /\ answer' = None
    /\ UNCHANGED <<bloom, added>>
    /\ BloomFrame

\* The process starts again and _init_bloom_filter finds the file:
\* the filter in use is now BloomFilter.load_from_file(file).
LoadFromFile ==
    /\ bloom_file # None
    /\ bloom' = <<load_from_file(bloom_file[1].data)>>
    /\ added' = bloom_file[1].items
    /\ answer' = None
    /\ UNCHANGED bloom_file
    /\ BloomFrame

NextBloom ==
    \/ \E item \in Items : Add(item)
    \/ \E item \in Items : Contains(item)
    \/ SaveToFile
    \/ LoadFromFile

SpecBloom == InitBloom /\ [][NextBloom]_vars

\* ------------------------------ concurrent callers of filter_new_urls
\* Two callers run filter_new_urls at the same time, either as two threads of
\* one process (one SmartDeduplicator) or as two crawl processes (one
\* SmartDeduplicator each) that share the Redis set.  A step is one
\* is_url_scraped call or one mark_url_scraped call of the loop; no service
\* fails here, and the shared cache and the index start empty.
Callers == {1, 2}

InitConc ==
    /\ \E strategy \in SUBSET Tiers, shape \in {"threads", "processes"} :
          /\ dedup = [p \in (IF shape = "threads" THEN {1} ELSE Callers) |->
                         SmartDeduplicatorNew(strategy, TRUE)]
          /\ threads = [t \in Callers |->
                         [proc |-> IF shape = "threads" THEN 1 ELSE t,
                          pc |-> "idle", urls |-> <<>>, new_urls |-> <<>>]]
    /\ scraped_urls = {}
    /\ index_urls = {}
    /\ submitted = [p \in {1} |-> {}]
    /\ classified_new = [p \in {1} |-> {}]
    /\ last = NoCall
    /\ BloomIdle
    /\ SpiderIdle
    /\ RestartIdle
    /\ CacheIdle
    /\ CleanupIdle

\* filter_new_urls(urls) is entered: new_urls = []
Begin(t, urls) ==
    /\ threads[t].pc = "idle"
    /\ threads' = [threads EXCEPT ![t].pc = "check", ![t].urls = urls]
    /\ UNCHANGED <<dedup, scraped_urls, index_urls>>
    /\ ConcFrame

\* if not self.is_url_scraped(url): new_urls.append(url)
Check(t) ==
    /\ threads[t].pc = "check"
    /\ threads[t].urls # <<>>
    /\ LET url == Head(threads[t].urls)
           r == is_url_scraped(dedup[threads[t].proc], scraped_urls, index_urls, url, {})
       IN  threads' = IF r.result
                      THEN [threads EXCEPT ![t].urls = Tail(@)]
                      ELSE [threads EXCEPT ![t].pc = "mark",
                                           ![t].new_urls = Append(@, url)]
    /\ UNCHANGED <<dedup, scraped_urls, index_urls>>
    /\ ConcFrame

\* self.mark_url_scraped(url)
Mark(t) ==
    /\ threads[t].pc = "mark"
    /\ LET p == threads[t].proc
           m == mark_url_scraped(dedup[p], scraped_urls, Head(threads[t].urls), {})
       IN  /\ dedup' = [dedup EXCEPT ![p] = m.d]
           /\ scraped_urls' = m.redis
    /\ threads' = [threads EXCEPT ![t].pc = "check", ![t].urls = Tail(@)]
    /\ UNCHANGED index_urls
    /\ ConcFrame

\* return new_urls
Finish(t) ==
    /\ threads[t].pc = "check"
    /\ threads[t].urls = <<>>
    /\ threads' = [threads EXCEPT ![t].pc = "done"]
    /\ UNCHANGED <<dedup, scraped_urls, index_urls>>
    /\ ConcFrame

NextConc ==
    \/ \E t \in Callers, urls \in Batches : Begin(t, urls)
    \/ \E t \in Callers : Check(t)
    \/ \E t \in Callers : Mark(t)
    \/ \E t \in Callers : Finish(t)

SpecConc == InitConc /\ [][NextConc]_vars

\* --------------------------------------------------------- DuplicateCleanup
\* A document is [id, url, text_content, timestamp].  The texts are three
\* pages: one too short to be compared, and two long ones that differ in a few
\* characters.
Texts == {"short", "pageA", "pageA2"}
DocUrls == {1, 2}
Timestamps == {1, 2}
DocIds == 1..MaxDocs

\* len(text)
TextLen(text) ==
    CASE text = "" -> 0 [] text = "short" -> 40 [] text = "pageA" -> 120
      [] text = "pageA2" -> 125 [] text = "pageA3" -> 122 [] text = "pageB" -> 130

\* difflib.SequenceMatcher(None, t1, t2).ratio(), in per cent.
\* pageA2 differs a little from pageA and from pageA3, which differ more from
\* each other; pageB shares no character with any other text.
Ratio(t1, t2) ==
    IF t1 = t2 THEN 100
    ELSE IF {t1, t2} = {"pageA", "pageA2"} THEN 96
    ELSE IF {t1, t2} = {"pageA2", "pageA3"} THEN 96
    ELSE IF {t1, t2} = {"pageA", "pageA3"} THEN 92
    ELSE IF "pageB" \in {t1, t2} THEN 0
    ELSE 10

\* hashlib.md5(content).hexdigest(): one digest per text.
md5(text) == <<"md5", text>>

\* The elements of a finite set of integers, ascending.
RECURSIVE Ascending(_)
Ascending(S) ==
    IF S = {} THEN <<>>
    ELSE LET least == CHOOSE x \in S : \A y \in S : x <= y
         IN  <<least>> \o Ascending(S \ {least})

\* DuplicateCleanup.get_all_documents: helpers.scan() without preserve_order
\* reads in index order, which the ids stand for.
get_all_documents(index) ==
    LET ids == Ascending(DOMAIN index)
    IN  [i \in 1..Len(ids) |->
            [id |-> ids[i], url |-> index[ids[i]].url,
             text_content |-> index[ids[i]].text_content,
             timestamp |-> index[ids[i]].timestamp]]

\* find_url_duplicates() without the len(docs) > 1 filter: every URL is a group.
find_url_duplicates_keeps_singletons(documents) ==
    [url \in {documents[i].url : i \in 1..Len(documents)} \ {0} |->
        SelectSeq(documents, LAMBDA doc : doc.url = url)]

\* DuplicateCleanup.find_url_duplicates: url -> its documents, for the URLs
\* with more than one.  A document without a url (url 0) is skipped.
find_url_duplicates(documents) ==
    LET url_groups == [url \in {documents[i].url : i \in 1..Len(documents)} \ {0} |->
                          SelectSeq(documents, LAMBDA doc : doc.url = url)]
    IN  [url \in {u \in DOMAIN url_groups : Len(url_groups[u]) > 1} |-> url_groups[url]]

\* DuplicateCleanup.find_content_duplicates: digest -> its documents, for the
\* texts of more than 50 characters held by more than one document.
find_content_duplicates(documents) ==
    LET long(doc) == TextLen(doc.text_content) > 50
        content_groups ==
            [h \in {md5(documents[i].text_content) :
                      i \in {k \in 1..Len(documents) : long(documents[k])}} |->
                SelectSeq(documents, LAMBDA doc : long(doc) /\ md5(doc.text_content) = h)]
    IN  [h \in {g \in DOMAIN content_groups : Len(content_groups[g]) > 1} |->
            content_groups[h]]

\* The loop of find_similar_content() without processed.add(): a document
\* that joined a group is compared again.
RECURSIVE similar_loop_forgets_processed(_, _, _, _, _)
similar_loop_forgets_processed(documents, threshold, i, processed, similar_groups) ==
    IF i > Len(documents) THEN similar_groups
    ELSE LET doc1 == documents[i]
         IN  IF TextLen(doc1.text_content) < 100
             THEN similar_loop_forgets_processed(documents, threshold, i + 1, processed,
                                                 similar_groups)
             ELSE LET joins(j) ==
                          /\ j > i
                          /\ TextLen(documents[j].text_content) >= 100
                          /\ Ratio(doc1.text_content, documents[j].text_content) >= threshold
                      members == {i} \cup {j \in 1..Len(documents) : joins(j)}
                      similar_docs == [k \in 1..Cardinality(members) |->
                                          documents[Ascending(members)[k]]]
                  IN  similar_loop_forgets_processed(documents, threshold, i + 1, processed,
                                   IF Len(similar_docs) > 1
                                   THEN Append(similar_groups, similar_docs)
                                   ELSE similar_groups)

\* DuplicateCleanup.find_similar_content, the outer loop from position i on:
\* an unprocessed document of at least 100 characters opens a group and takes
\* every later unprocessed long document whose ratio to it reaches the threshold.
RECURSIVE similar_loop(_, _, _, _, _)
similar_loop(documents, threshold, i, processed, similar_groups) ==
    IF i > Len(documents) THEN similar_groups
    ELSE LET doc1 == documents[i]
         IN  IF doc1.id \in processed \/ TextLen(doc1.text_content) < 100
             THEN similar_loop(documents, threshold, i + 1, processed, similar_groups)
             ELSE LET joins(j) ==
                          /\ j > i
                          /\ documents[j].id \notin processed
                          /\ TextLen(documents[j].text_content) >= 100
                          /\ Ratio(doc1.text_content, documents[j].text_content) >= threshold
                      members == {i} \cup {j \in 1..Len(documents) : joins(j)}
                      similar_docs == [k \in 1..Cardinality(members) |->
                                          documents[Ascending(members)[k]]]
                      processed2 == processed \cup {documents[j].id : j \in members}
                  IN  similar_loop(documents, threshold, i + 1, processed2,
                                   IF Len(similar_docs) > 1
                                   THEN Append(similar_groups, similar_docs)
                                   ELSE similar_groups)

\* DuplicateCleanup.find_similar_content: group number -> its documents.
\* sample is what random.sample(documents, 1000) returns when there are more
\* documents than the cap: that many of them, in the order they were drawn.
find_similar_content(documents, threshold, sample) ==
    similar_loop(IF Len(documents) > SampleCap THEN sample ELSE documents,
                 threshold, 1, {}, <<>>)

\* Python's max(docs, key=...) and min(docs, key=...) over the keys of the
\* documents: the position of the first one, in list order, whose key is the
\* largest (smallest).
FirstMax(keys) ==
    CHOOSE i \in 1..Len(keys) :
        /\ \A j \in 1..Len(keys) : keys[j] <= keys[i]
        /\ \A j \in 1..(i - 1) : keys[j] < keys[i]
FirstMin(keys) ==
    CHOOSE i \in 1..Len(keys) :
        /\ \A j \in 1..Len(keys) : keys[j] >= keys[i]
        /\ \A j \in 1..(i - 1) : keys[j] > keys[i]

\* select_documents_to_keep() keeping the first member of each group whatever
\* the strategy.
select_documents_to_keep_first_listed(duplicate_groups, strategy) ==
    UNION {
        LET docs == duplicate_groups[g]
        IN  IF Len(docs) <= 1 \/ strategy \notin {"latest", "longest_content", "first"}
            THEN {}
            ELSE {docs[i].id : i \in 2..Len(docs)}
        : g \in DOMAIN duplicate_groups}

\* DuplicateCleanup.select_documents_to_keep: the ids to remove.  A strategy
\* name that matches no branch removes nothing.
select_documents_to_keep(duplicate_groups, strategy) ==
    UNION {
        LET docs == duplicate_groups[g]
            ids  == {docs[i].id : i \in 1..Len(docs)}
            timestamps == [i \in 1..Len(docs) |-> docs[i].timestamp]
            lengths == [i \in 1..Len(docs) |-> TextLen(docs[i].text_content)]
        IN  IF Len(docs) <= 1 THEN {}
            ELSE IF strategy = "latest"
            THEN ids \ {docs[FirstMax(timestamps)].id}
            ELSE IF strategy = "longest_content"
            THEN ids \ {docs[FirstMax(lengths)].id}
            ELSE IF strategy = "first"
            THEN ids \ {docs[FirstMin(timestamps)].id}
            ELSE {}
        : g \in DOMAIN duplicate_groups}

\* helpers.bulk(client, actions, chunk_size): the delete actions go out in
\* requests of chunk_size ids.  `sent` counts the requests of the run so far and
\* request number `fault` meets a transport error.  A request is applied as a
\* whole; an id it does not find comes back with status 404, which bulk()
\* (raise_on_error is left at True) raises as BulkIndexError once the request
\* has been applied.  Either error ends the call with the later requests unsent.
RECURSIVE bulk(_, _, _, _)
bulk(index, ids, sent, fault) ==
    IF ids = <<>> THEN [raised |-> FALSE, index |-> index, sent |-> sent]
    ELSE LET n == IF Len(ids) < ChunkSize THEN Len(ids) ELSE ChunkSize
             chunk == {ids[i] : i \in 1..n}
             rest == SubSeq(ids, n + 1, Len(ids))
             applied == [id \in DOMAIN index \ chunk |-> index[id]]
         IN  IF sent + 1 = fault
             THEN [raised |-> TRUE, index |-> index, sent |-> sent + 1]
             ELSE IF ~(chunk \subseteq DOMAIN index)
             THEN [raised |-> TRUE, index |-> applied, sent |-> sent + 1]
             ELSE bulk(applied, rest, sent + 1, fault)

\* remove_documents() without the dry-run test.
remove_documents_ignores_dry_run(c, document_ids) ==
    IF document_ids = {} THEN [c |-> c, ok |-> TRUE]
    ELSE LET b == bulk(c.index, Ascending(document_ids), c.sent, c.fault)
             done == [c EXCEPT !.index = b.index, !.sent = b.sent, !.calls = @ + 1]
         IN  IF b.raised
             THEN [c |-> [done EXCEPT !.stats.errors = @ + Cardinality(document_ids)],
                   ok |-> FALSE]
             ELSE [c |-> done, ok |-> TRUE]

\* DuplicateCleanup.remove_documents.  c is the DuplicateCleanup object
\* together with the index it works on: [dry_run, stats, index, sent, calls,
\* fault], calls counting the bulk() calls made so far.
\* bulk() returns an empty `failed` list whenever it returns, so the branch on
\* it is never taken.
remove_documents(c, document_ids) ==
    IF document_ids = {} THEN [c |-> c, ok |-> TRUE]
    ELSE IF c.dry_run THEN [c |-> c, ok |-> TRUE]
    ELSE LET b == bulk(c.index, Ascending(document_ids), c.sent, c.fault)
             done == [c EXCEPT !.index = b.index, !.sent = b.sent, !.calls = @ + 1]
         IN  IF b.raised
             THEN [c |-> [done EXCEPT !.stats.errors = @ + Cardinality(document_ids)],
                   ok |-> FALSE]
             ELSE [c |-> done, ok |-> TRUE]

\* remove_documents() called once for each set of a list.
RECURSIVE remove_each(_, _)
remove_each(c, sets) ==
    IF sets = <<>> THEN [c |-> c, ok |-> TRUE]
    ELSE LET r == remove_documents(c, Head(sets))
             rest == remove_each(r.c, Tail(sets))
         IN  [c |-> rest.c, ok |-> r.ok /\ rest.ok]

\* cleanup_url_duplicates() that deletes group by group instead of collecting
\* one removal set.
cleanup_url_duplicates_per_group(c, documents, strategy) ==
    LET groups == find_url_duplicates(documents)
        urls == Ascending(DOMAIN groups)
        sets == [k \in 1..Len(urls) |->
                    select_documents_to_keep([u \in {urls[k]} |-> groups[u]], strategy)]
        to_remove == UNION {sets[k] : k \in 1..Len(sets)}
        r == remove_each(c, sets)
    IN  IF r.ok
        THEN [c |-> [r.c EXCEPT !.stats.url_duplicates_removed = Cardinality(to_remove)],
              removed |-> Cardinality(to_remove)]
        ELSE [c |-> r.c, removed |-> 0]

\* DuplicateCleanup.cleanup_url_duplicates
cleanup_url_duplicates(c, documents, strategy) ==
    LET to_remove == select_documents_to_keep(find_url_duplicates(documents), strategy)
        r == remove_documents(c, to_remove)
    IN  IF r.ok
        THEN [c |-> [r.c EXCEPT !.stats.url_duplicates_removed = Cardinality(to_remove)],
              removed |-> Cardinality(to_remove)]
        ELSE [c |-> r.c, removed |-> 0]

\* DuplicateCleanup.cleanup_content_duplicates
cleanup_content_duplicates(c, documents, strategy) ==
    LET to_remove == select_documents_to_keep(find_content_duplicates(documents), strategy)
        r == remove_documents(c, to_remove)
    IN  IF r.ok
        THEN [c |-> [r.c EXCEPT !.stats.content_duplicates_removed = Cardinality(to_remove)],
              removed |-> Cardinality(to_remove)]
        ELSE [c |-> r.c, removed |-> 0]

\* DuplicateCleanup.cleanup_similar_content.  sample is what random.sample
\* returns inside find_similar_content when it is called.
cleanup_similar_content(c, documents, threshold, strategy, sample) ==
    LET to_remove == select_documents_to_keep(
                         find_similar_content(documents, threshold, sample), strategy)
        r == remove_documents(c, to_remove)
    IN  IF r.ok
        THEN [c |-> r.c, removed |-> Cardinality(to_remove)]
        ELSE [c |-> r.c, removed |-> 0]

\* DuplicateCleanup.__init__
DuplicateCleanupNew(index, dry_run, fault) ==
    [dry_run |-> dry_run,
     stats   |-> [processed |-> 0, url_duplicates_removed |-> 0,
                  content_duplicates_removed |-> 0, total_removed |-> 0, errors |-> 0],
     index   |-> index,
     sent    |-> 0,
     calls   |-> 0,
     fault   |-> fault]

\* run_cleanup() giving up at the first phase that recorded an error.
run_cleanup_stops_at_failure(c, cleanup_types, strategy, threshold) ==
    LET documents == get_all_documents(c.index)
        c0 == [c EXCEPT !.stats.processed = Len(documents)]
        u  == IF "url" \in cleanup_types
              THEN cleanup_url_duplicates(c0, documents, strategy)
              ELSE [c |-> c0, removed |-> 0]
        n  == IF "content" \in cleanup_types /\ u.c.stats.errors = 0
              THEN cleanup_content_duplicates(u.c, documents, strategy)
              ELSE [c |-> u.c, removed |-> 0]
        m  == IF "similar" \in cleanup_types /\ n.c.stats.errors = 0
              THEN cleanup_similar_content(n.c, documents, threshold, strategy, documents)
              ELSE [c |-> n.c, removed |-> 0]
    IN  [m.c EXCEPT !.stats.total_removed = u.removed + n.removed + m.removed]

\* run_cleanup() in which every phase fetches the documents again.
run_cleanup_refetches(c, cleanup_types, strategy, threshold) ==
    LET documents == get_all_documents(c.index)
        c0 == [c EXCEPT !.stats.processed = Len(documents)]
        u  == IF "url" \in cleanup_types
              THEN cleanup_url_duplicates(c0, documents, strategy)
              ELSE [c |-> c0, removed |-> 0]
        n  == IF "content" \in cleanup_types
              THEN cleanup_content_duplicates(u.c, get_all_documents(u.c.index), strategy)
              ELSE [c |-> u.c, removed |-> 0]
        m  == IF "similar" \in cleanup_types
              THEN cleanup_similar_content(n.c, get_all_documents(n.c.index), threshold,
                                           strategy, get_all_documents(n.c.index))
              ELSE [c |-> n.c, removed |-> 0]
    IN  [m.c EXCEPT !.stats.total_removed = u.removed + n.removed + m.removed]

\* DuplicateCleanup.run_cleanup, on an index of at most SampleCap documents:
\* find_similar_content draws no sample and works on the documents fetched.
run_cleanup(c, cleanup_types, strategy, threshold) ==
    LET documents == get_all_documents(c.index)
        c0 == [c EXCEPT !.stats.processed = Len(documents)]
        u  == IF "url" \in cleanup_types
              THEN cleanup_url_duplicates(c0, documents, strategy)
              ELSE [c |-> c0, removed |-> 0]
        n  == IF "content" \in cleanup_types
              THEN cleanup_content_duplicates(u.c, documents, strategy)
              ELSE [c |-> u.c, removed |-> 0]
        m  == IF "similar" \in cleanup_types
              THEN cleanup_similar_content(n.c, documents, threshold, strategy, documents)
              ELSE [c |-> n.c, removed |-> 0]
    IN  [m.c EXCEPT !.stats.total_removed = u.removed + n.removed + m.removed]

CleanupTypes == {"url", "content", "similar"}
Strategies == {"latest", "longest_content", "first"}
\* The default similarity_threshold, 0.95, in per cent.
DefaultThreshold == 95
InitCleanup ==
    /\ store \in [DocIds -> [url : DocUrls, text_content : Texts, timestamp : Timestamps]]
    /\ run = None
    /\ request = None
    /\ report = None
    /\ DedupIdle
    /\ BloomIdle
    /\ SpiderIdle
    /\ RestartIdle
    /\ CacheIdle
    /\ ConcIdle

\* main() / the API / the scheduled service: a fresh DuplicateCleanup(dry_run)
\* runs run_cleanup once.  fault is the number of the bulk request that meets
\* a transport error, 0 when none does.
RunCleanup(dry_run, cleanup_types, strategy, fault) ==
    /\ run = None
    /\ LET c == run_cleanup(DuplicateCleanupNew(store, dry_run, fault),
                            cleanup_types, strategy, DefaultThreshold)
       IN  /\ store' = c.index
           /\ run' = <<[dry_run |-> dry_run, cleanup_types |-> cleanup_types,
                        strategy |-> strategy, fault |-> fault,
                        stats |-> c.stats, sent |-> c.sent, calls |-> c.calls]>>
    /\ UNCHANGED request
    /\ CleanupFrame

\* The stats have been returned; the next run starts from a new object.
ReturnStats ==
    /\ run # None
    /\ run' = None
    /\ UNCHANGED <<store, request>>
    /\ CleanupFrame

\* Runs against a cluster that answers every request.
NextCleanup ==
    \/ \E dry_run \in BOOLEAN, cleanup_types \in SUBSET CleanupTypes, strategy \in Strategies :
          RunCleanup(dry_run, cleanup_types, strategy, 0)
    \/ ReturnStats

SpecCleanup == InitCleanup /\ [][NextCleanup]_vars

\* Live runs, with the default strategy, against a cluster on which one bulk
\* request of the run, the one numbered fault, meets a transport error
\* (helpers.bulk re-raises it).  A number beyond the requests the run sends is
\* a run without an error.
Faults == 1..MaxDocs

NextOutage ==
    \/ \E cleanup_types \in SUBSET CleanupTypes, fault \in Faults :
          RunCleanup(FALSE, cleanup_types, "latest", fault)
    \/ ReturnStats

SpecOutage == InitCleanup /\ [][NextOutage]_vars

\* Runs of the url and content types on an index large enough for two groups
\* of one kind: two documents for each URL, over two texts, both long, that
\* share no character.
LongTexts == {"pageA", "pageB"}
GroupDocs == 2 * Cardinality(DocUrls)

InitGroups ==
    /\ store \in [1..GroupDocs ->
                     [url : DocUrls, text_content : LongTexts, timestamp : Timestamps]]
    /\ run = None
    /\ request = None
    /\ report = None
    /\ DedupIdle
    /\ BloomIdle
    /\ SpiderIdle
    /\ RestartIdle
    /\ CacheIdle
    /\ ConcIdle

NextGroups ==
    \/ \E dry_run \in BOOLEAN, cleanup_types \in SUBSET {"url", "content"},
          strategy \in Strategies :
          RunCleanup(dry_run, cleanup_types, strategy, 0)
    \/ ReturnStats

SpecGroups == InitGroups /\ [][NextGroups]_vars

\* ------------------------------------------------------------ entry points
\* The ways a cleanup is started: DuplicateCleanup used directly, the command
\* line (cleanup_duplicates.main), the API (POST /duplicates/cleanup) and the
\* scheduled service (CleanupService).  An argument left out is None, one given
\* is <<value>>.
Given(argument, default) == IF argument = None THEN default ELSE argument[1]

\* Strategy names a caller may pass: a known one and an unknown one.
StrategyNames == {"latest", "newest"}
\* Similarity thresholds a caller may pass, in per cent: the default, and one
\* below 0.
Thresholds == {95, -5}
\* The --types / cleanup_types default, and the similar phase alone.
DefaultTypes == {"url", "content"}
TypeLists == {DefaultTypes, {"similar"}}
OptionalBool == {None, <<TRUE>>, <<FALSE>>}

\* What the claims call a valid configuration.
ValidConfiguration(strategy, threshold) ==
    strategy \in Strategies /\ threshold >= 0 /\ threshold <= 100

\* An entry point has taken a request.  accepted says that the entry point's
\* own argument checks let it through to run_cleanup; live_requested says that
\* the caller asked for a live run in so many words.
Serve(entry, live_requested, accepted, dry_run, cleanup_types, strategy, threshold) ==
    /\ run = None
    /\ request = None
    /\ IF accepted
       THEN LET c == run_cleanup(DuplicateCleanupNew(store, dry_run, 0),
                                 cleanup_types, strategy, threshold)
            IN  /\ store' = c.index
                /\ run' = <<[dry_run |-> dry_run, cleanup_types |-> cleanup_types,
                             strategy |-> strategy, fault |-> 0,
                             stats |-> c.stats, sent |-> c.sent, calls |-> c.calls]>>
       ELSE UNCHANGED <<store, run>>
    /\ request' = <<[entry |-> entry, live_requested |-> live_requested,
                     strategy |-> strategy, similarity_threshold |-> threshold,
                     outcome |-> IF accepted THEN "stats" ELSE "error"]>>
    /\ CleanupFrame

\* DuplicateCleanup(dry_run).run_cleanup(cleanup_types, strategy, threshold)
\* called directly: dry_run defaults to True and nothing checks the arguments.
DirectCall(dry_run, cleanup_types, strategy, threshold) ==
    Serve("direct", dry_run = <<FALSE>>, TRUE,
          Given(dry_run, TRUE), cleanup_types, strategy, threshold)

\* cleanup_duplicates.main: --live turns the dry run off; argparse rejects a
\* --strategy outside its choices and takes any float for --similarity.
CommandLine(live, cleanup_types, strategy, threshold) ==
    Serve("command_line", live, strategy \in Strategies,
          ~live, cleanup_types, strategy, threshold)

\* POST /duplicates/cleanup: CleanupRequest defaults dry_run to True and
\* bounds similarity_threshold by ge=0.0, le=1.0; strategy is any string.
ApiCleanup(dry_run, cleanup_types, strategy, threshold) ==
    Serve("api", dry_run = <<FALSE>>, threshold >= 0 /\ threshold <= 100,
          Given(dry_run, TRUE), cleanup_types, strategy, threshold)

\* CleanupService.run_light_cleanup / run_full_cleanup / run_deep_cleanup.
\* config_dry_run is the dry_run of the user's cleanup_config.json, None when
\* there is no file and _load_config falls back on its default_config, whose
\* cleanup_settings say dry_run False, strategy latest, similar_content False.
ScheduledCleanup(kind, config_dry_run) ==
    Serve("scheduled", config_dry_run = <<FALSE>>, TRUE,
          Given(config_dry_run, FALSE),
          IF kind = "light" THEN {"url"} ELSE {"url", "content"},
          "latest", DefaultThreshold)

\* The entry point has answered.
Respond ==
    /\ request # None
    /\ request' = None
    /\ run' = None
    /\ UNCHANGED store
    /\ CleanupFrame

NextEntry ==
    \/ \E dry_run \in {None, <<FALSE>>}, cleanup_types \in TypeLists,
          strategy \in StrategyNames, threshold \in Thresholds :
          DirectCall(dry_run, cleanup_types, strategy, threshold)
    \/ \E live \in BOOLEAN, cleanup_types \in TypeLists,
          strategy \in StrategyNames, threshold \in Thresholds :
          CommandLine(live, cleanup_types, strategy, threshold)
    \/ \E dry_run \in OptionalBool, cleanup_types \in TypeLists,
          strategy \in StrategyNames, threshold \in Thresholds :
          ApiCleanup(dry_run, cleanup_types, strategy, threshold)
    \/ \E kind \in {"light", "full", "deep"}, config_dry_run \in OptionalBool :
          ScheduledCleanup(kind, config_dry_run)
    \/ Respond

SpecEntry == InitCleanup /\ [][NextEntry]_vars

\* -------------------------------------------------------- DuplicateAnalyzer
\* The analyzer reads documents as they are indexed: the url may be missing
\* or empty (0 here) and the text may be empty.
IndexedUrls == {0} \cup DocUrls
IndexedTexts == {"", "short", "pageA"}

\* The ids of an index ordered by timestamp, documents of equal timestamp in
\* index order.
RECURSIVE sorted_by_timestamp(_, _, _)
sorted_by_timestamp(index, ids, descending) ==
    IF ids = {} THEN <<>>
    ELSE LET precedes(i, j) ==
                 \/ i = j
                 \/ IF descending THEN index[i].timestamp > index[j].timestamp
                                  ELSE index[i].timestamp < index[j].timestamp
                 \/ index[i].timestamp = index[j].timestamp /\ i < j
             first == CHOOSE i \in ids : \A j \in ids : precedes(i, j)
         IN  <<first>> \o sorted_by_timestamp(index, ids \ {first}, descending)

\* client.search(index, body={"size": size, "sort": [{"timestamp": order}]}):
\* response['hits']['hits'], the first `size` documents in sort order.
search(index, size, descending) ==
    LET ids == sorted_by_timestamp(index, DOMAIN index, descending)
        n == IF Len(ids) < size THEN Len(ids) ELSE size
    IN  [k \in 1..n |-> index[ids[k]]]

\* sum(counts.values())
RECURSIVE sum_values(_)
sum_values(counts) ==
    IF DOMAIN counts = {} THEN 0
    ELSE LET key == CHOOSE k \in DOMAIN counts : TRUE
         IN  counts[key] + sum_values([k \in DOMAIN counts \ {key} |-> counts[k]])

\* DuplicateAnalyzer.analyze_url_duplicates
analyze_url_duplicates(index) ==
    LET documents == search(index, SearchSize, TRUE)
        with_url == SelectSeq(documents, LAMBDA doc : doc.url # 0)
        url_counts == [url \in {with_url[i].url : i \in 1..Len(with_url)} |->
                          Len(SelectSeq(with_url, LAMBDA doc : doc.url = url))]
        url_timestamps == [url \in DOMAIN url_counts |->
                              LET of_url == SelectSeq(with_url, LAMBDA doc : doc.url = url)
                              IN  [i \in 1..Len(of_url) |-> of_url[i].timestamp]]
        duplicates == [url \in {u \in DOMAIN url_counts : url_counts[u] > 1} |->
                          url_counts[url]]
    IN  [total_documents   |-> Len(documents),
         unique_urls       |-> Cardinality(DOMAIN url_counts),
         duplicate_urls    |-> Cardinality(DOMAIN duplicates),
         total_duplicates  |-> sum_values(duplicates) - Cardinality(DOMAIN duplicates),
         duplicate_details |-> duplicates,
         url_timestamps    |-> url_timestamps]

\* DuplicateAnalyzer.analyze_content_duplicates
analyze_content_duplicates(index) ==
    LET documents == search(index, SearchSize, TRUE)
        hashed == SelectSeq(documents, LAMBDA doc : doc.text_content # "" /\ doc.url # 0)
        content_hashes ==
            [h \in {md5(hashed[i].text_content) : i \in 1..Len(hashed)} |->
                LET same == SelectSeq(hashed, LAMBDA doc : md5(doc.text_content) = h)
                IN  [i \in 1..Len(same) |->
                        [url |-> same[i].url, timestamp |-> same[i].timestamp,
                         content_length |-> TextLen(same[i].text_content)]]]
        content_duplicates ==
            [h \in {g \in DOMAIN content_hashes : Len(content_hashes[g]) > 1} |->
                content_hashes[h]]
    IN  [total_content_hashes     |-> Cardinality(DOMAIN content_hashes),
         duplicate_content_groups |-> Cardinality(DOMAIN content_duplicates),
         total_content_duplicates |->
             sum_values([h \in DOMAIN content_duplicates |-> Len(content_duplicates[h]) - 1]),
         duplicate_details        |-> content_duplicates]

InitAnalyze ==
    /\ \E n \in 0..MaxDocs :
          store \in [1..n -> [url : IndexedUrls, text_content : IndexedTexts,
                              timestamp : Timestamps]]
    /\ run = None
    /\ request = None
    /\ report = None
    /\ DedupIdle
    /\ BloomIdle
    /\ SpiderIdle
    /\ RestartIdle
    /\ CacheIdle
    /\ ConcIdle

AnalyzeUrlDuplicates ==
    /\ report = None
    /\ report' = <<[op |-> "analyze_url_duplicates",
                    result |-> analyze_url_duplicates(store)]>>
    /\ AnalyzerFrame

AnalyzeContentDuplicates ==
    /\ report = None
    /\ report' = <<[op |-> "analyze_content_duplicates",
                    result |-> analyze_content_duplicates(store)]>>
    /\ AnalyzerFrame

\* The dict has been returned.
ReturnReport ==
    /\ report # None
    /\ report' = None
    /\ AnalyzerFrame

NextAnalyze ==
    \/ AnalyzeUrlDuplicates
    \/ AnalyzeContentDuplicates
    \/ ReturnReport

SpecAnalyze == InitAnalyze /\ [][NextAnalyze]_vars

\* --------------------------------------------------- analyze_temporal_patterns
\* Timestamps here are epoch times counted in minutes: 600, 603 and 605 are
\* 10:00, 10:03 and 10:05 of the first day, 1439 and 1441 are one minute before
\* and one minute after the following midnight.  0 is the epoch itself, which
\* Python takes for false, and Unparsable is a number too large for
\* datetime.fromtimestamp, which raises on it.
Unparsable == {99999}
Stamps == {0, 600, 603, 605, 1439, 1441} \cup Unparsable

\* datetime.fromtimestamp(ts / 1000): the calendar day, the hour of the day and
\* the minute of the hour.
fromtimestamp(ts) ==
    [date |-> ts \div 1440, hour |-> (ts % 1440) \div 60, minute |-> ts % 60]

\* (dt - datetime of the epoch).total_seconds()
total_seconds(dt) == (((dt.date * 24) + dt.hour) * 60 + dt.minute) * 60

\* dt_timestamps.sort()
RECURSIVE sort(_)
sort(dts) ==
    IF dts = <<>> THEN <<>>
    ELSE LET k == CHOOSE i \in 1..Len(dts) :
                      \A j \in 1..Len(dts) :
                          \/ total_seconds(dts[i]) < total_seconds(dts[j])
                          \/ total_seconds(dts[i]) = total_seconds(dts[j]) /\ i <= j
         IN  <<dts[k]>> \o sort([j \in 1..(Len(dts) - 1) |->
                                    IF j < k THEN dts[j] ELSE dts[j + 1]])

\* analyze_temporal_patterns() in which the same-day flag is raised only for a
\* URL without two timestamps in one hour.
analyze_temporal_patterns_partitions(index) ==
    LET documents == search(index, SearchSize, FALSE)
        valid == SelectSeq(documents, LAMBDA doc : doc.url # 0 /\ doc.timestamp # 0)
        url_timeline == [url \in {valid[i].url : i \in 1..Len(valid)} |->
                            LET of_url == SelectSeq(valid, LAMBDA doc : doc.url = url)
                            IN  [i \in 1..Len(of_url) |-> of_url[i].timestamp]]
        repeated == {url \in DOMAIN url_timeline : Len(url_timeline[url]) > 1}
        dt_timestamps(url) ==
            LET parsed == SelectSeq(url_timeline[url], LAMBDA ts : ts \notin Unparsable)
            IN  sort([i \in 1..Len(parsed) |-> fromtimestamp(parsed[i])])
        rapid(url) == \E i \in 2..Len(dt_timestamps(url)) :
                          total_seconds(dt_timestamps(url)[i])
                          - total_seconds(dt_timestamps(url)[i - 1]) < 300
        day(url) == {dt_timestamps(url)[i].date : i \in 1..Len(dt_timestamps(url))}
        hour(url) == {<<dt_timestamps(url)[i].date, dt_timestamps(url)[i].hour>> :
                         i \in 1..Len(dt_timestamps(url))}
    IN  [same_day_duplicates  |->
             Cardinality({url \in repeated :
                             /\ Cardinality(day(url)) < Len(dt_timestamps(url))
                             /\ Cardinality(hour(url)) = Len(dt_timestamps(url))}),
         same_hour_duplicates |->
             Cardinality({url \in repeated :
                             Cardinality(hour(url)) < Len(dt_timestamps(url))}),
         rapid_duplicates     |-> Cardinality({url \in repeated : rapid(url)}),
         url_frequency        |-> [url \in repeated |-> Len(url_timeline[url])]]

\* DuplicateAnalyzer.analyze_temporal_patterns: one search of SearchSize hits,
\* oldest first; the hits with a url and a timestamp grouped by url; for each
\* url with more than one timestamp, its count, and one more same-day,
\* same-hour and rapid duplicate when two of its parsed timestamps share a
\* date, share a date and hour, or follow each other in less than 300 seconds.
analyze_temporal_patterns(index) ==
    LET documents == search(index, SearchSize, FALSE)
        valid == SelectSeq(documents, LAMBDA doc : doc.url # 0 /\ doc.timestamp # 0)
        url_timeline == [url \in {valid[i].url : i \in 1..Len(valid)} |->
                            LET of_url == SelectSeq(valid, LAMBDA doc : doc.url = url)
                            IN  [i \in 1..Len(of_url) |-> of_url[i].timestamp]]
        repeated == {url \in DOMAIN url_timeline : Len(url_timeline[url]) > 1}
        dt_timestamps(url) ==
            LET parsed == SelectSeq(url_timeline[url], LAMBDA ts : ts \notin Unparsable)
            IN  sort([i \in 1..Len(parsed) |-> fromtimestamp(parsed[i])])
        rapid(url) == \E i \in 2..Len(dt_timestamps(url)) :
                          total_seconds(dt_timestamps(url)[i])
                          - total_seconds(dt_timestamps(url)[i - 1]) < 300
        day(url) == {dt_timestamps(url)[i].date : i \in 1..Len(dt_timestamps(url))}
        hour(url) == {<<dt_timestamps(url)[i].date, dt_timestamps(url)[i].hour>> :
                         i \in 1..Len(dt_timestamps(url))}
    IN  [same_day_duplicates  |->
             Cardinality({url \in repeated :
                             Cardinality(day(url)) < Len(dt_timestamps(url))}),
         same_hour_duplicates |->
             Cardinality({url \in repeated :
                             Cardinality(hour(url)) < Len(dt_timestamps(url))}),
         rapid_duplicates     |-> Cardinality({url \in repeated : rapid(url)}),
         url_frequency        |-> [url \in repeated |-> Len(url_timeline[url])]]

\* An index of at most MaxDocs documents, of which the analysis reads the url
\* and the timestamp.
InitTemporal ==
    /\ \E n \in 0..MaxDocs : store \in [1..n -> [url : IndexedUrls, timestamp : Stamps]]
    /\ run = None
    /\ request = None
    /\ report = None
    /\ DedupIdle
    /\ BloomIdle
    /\ SpiderIdle
    /\ RestartIdle
    /\ CacheIdle
    /\ ConcIdle

AnalyzeTemporalPatterns ==
    /\ report = None
    /\ report' = <<[op |-> "analyze_temporal_patterns",
                    result |-> analyze_temporal_patterns(store)]>>
    /\ AnalyzerFrame

NextTemporal ==
    \/ AnalyzeTemporalPatterns
    \/ ReturnReport

SpecTemporal == InitTemporal /\ [][NextTemporal]_vars

\* ---------------------------------------------------- find_similar_content
\* find_similar_content called on its own: on every list of up to SampleCap
\* documents, and on the lists of SampleCap + 1 long documents, which are
\* sampled.
SimilarTexts == {"short", "pageA", "pageA2", "pageA3", "pageB"}
DocumentLists ==
    UNION {[1..n -> SimilarTexts] : n \in 0..SampleCap}
    \cup [1..(SampleCap + 1) -> {text \in SimilarTexts : TextLen(text) >= 100}]

\* The lists random.sample(documents, k) can return: k documents of the list,
\* each once, in any order.
Samples(documents, k) ==
    {[i \in 1..k |-> documents[order[i]]] :
        order \in {o \in [1..k -> 1..Len(documents)] :
                      \A i, j \in 1..k : o[i] = o[j] => i = j}}

InitSimilar ==
    /\ report = None
    /\ CleanupIdle
    /\ DedupIdle
    /\ BloomIdle
    /\ SpiderIdle
    /\ RestartIdle
    /\ CacheIdle
    /\ ConcIdle

FindSimilarContent(texts) ==
    /\ report = None
    /\ LET documents == [i \in 1..Len(texts) |-> [id |-> i, text_content |-> texts[i]]]
       IN  \E sample \in (IF Len(documents) > SampleCap
                          THEN Samples(documents, SampleCap) ELSE {documents}) :
              report' = <<[op |-> "find_similar_content",
                           documents |-> documents,
                           similarity_threshold |-> DefaultThreshold,
                           compared |-> sample,
                           result |-> find_similar_content(documents, DefaultThreshold,
                                                           sample)]>>
    /\ AnalyzerFrame

\* The lists of up to SampleCap + 1 documents whose texts are all within the
\* default threshold of each other.
SimilarLists == UNION {[1..n -> {"pageA", "pageA2"}] : n \in 0..(SampleCap + 1)}

\* A live cleanup_similar_content() on an index whose documents carry the
\* given texts and one and the same timestamp: what it compared and which
\* documents it left in the index.
CleanupSimilarContent(texts, strategy) ==
    /\ report = None
    /\ LET index == [i \in 1..Len(texts) |->
                        [url |-> 1, text_content |-> texts[i], timestamp |-> 1]]
           documents == get_all_documents(index)
       IN  \E sample \in (IF Len(documents) > SampleCap
                          THEN Samples(documents, SampleCap) ELSE {documents}) :
              LET r == cleanup_similar_content(DuplicateCleanupNew(index, FALSE, 0),
                                               documents, DefaultThreshold, strategy, sample)
              IN  report' = <<[op |-> "cleanup_similar_content",
                               documents |-> documents,
                               compared |-> sample,
                               strategy |-> strategy,
                               removed |-> r.removed,
                               left |-> DOMAIN r.c.index]>>
    /\ AnalyzerFrame

NextSimilar ==
    \/ \E texts \in DocumentLists : FindSimilarContent(texts)
    \/ \E texts \in SimilarLists, strategy \in Strategies :
          CleanupSimilarContent(texts, strategy)
    \/ ReturnReport

SpecSimilar == InitSimilar /\ [][NextSimilar]_vars

\* ---------------------------------------------- expiry of the shared cache
\* redis_client.expire("scraped_urls", 86400 * 7): the horizon in days, and the
\* days a behaviour is followed for.
Horizon == 7
MaxClock == 8

\* EXPIRE key seconds: the key, with everything in it, is deleted that long
\* after the call; a TTL the key had before is overwritten.
expire(now, horizon) == <<now + horizon>>

\* A process with a Redis client, an empty cache at day 0.
InitExpiry ==
    /\ \E strategy \in {S \in SUBSET Tiers : "redis" \in S} :
          dedup = [p \in {1} |-> SmartDeduplicatorNew(strategy, TRUE)]
    /\ scraped_urls = {}
    /\ index_urls = {}
    /\ submitted = [p \in {1} |-> {}]
    /\ classified_new = [p \in {1} |-> {}]
    /\ last = NoCall
    /\ clock = 0
    /\ key_expires = None
    /\ marked_at = [url \in Urls |-> None]
    /\ BloomIdle
    /\ SpiderIdle
    /\ RestartIdle
    /\ ConcIdle
    /\ CleanupIdle

\* mark_url_scraped(url): sadd and then expire on the key, both inside one
\* try block, which a Redis that is down leaves at the first call.
MarkUrlScraped(p, url, down) ==
    /\ LET m == mark_url_scraped(dedup[p], scraped_urls, url, down)
       IN  /\ dedup' = [dedup EXCEPT ![p] = m.d]
           /\ scraped_urls' = m.redis
    /\ key_expires' = IF dedup[p].redis_client /\ "redis" \notin down
                      THEN expire(clock, Horizon) ELSE key_expires
    /\ marked_at' = IF dedup[p].redis_client /\ "redis" \notin down
                    THEN [marked_at EXCEPT ![url] = <<clock>>] ELSE marked_at
    /\ UNCHANGED <<clock, index_urls, submitted, classified_new, last>>
    /\ UNCHANGED <<bloomVars, concVars, cleanupVars, analyzerVars, restartVars, spiderVars>>

\* A day goes by; Redis deletes the key when its TTL has run out.
Tick ==
    /\ clock < MaxClock
    /\ clock' = clock + 1
    /\ IF key_expires # None /\ key_expires[1] <= clock + 1
       THEN scraped_urls' = {} /\ key_expires' = None
       ELSE UNCHANGED <<scraped_urls, key_expires>>
    /\ UNCHANGED <<dedup, index_urls, submitted, classified_new, last, marked_at>>
    /\ UNCHANGED <<bloomVars, concVars, cleanupVars, analyzerVars, restartVars, spiderVars>>

NextExpiry ==
    \/ \E p \in DOMAIN dedup, url \in Urls, down \in {{}, {"redis"}} :
          MarkUrlScraped(p, url, down)
    \/ Tick

SpecExpiry == InitExpiry /\ [][NextExpiry]_vars

\* ------------------------------------------------------ load_existing_urls
\* A deduplicator in front of an index of documents.  `store` is the index
\* (a document is its url here, 0 standing for a hit without one) and
\* index_urls the URLs a term query on it finds.

\* opensearch_client.search(body={"size": size, "query": {"match_all": {}}}):
\* response['hits']['hits'], the first `size` documents of the index.
search_all(index, size) ==
    LET ids == Ascending(DOMAIN index)
        n == IF Len(ids) < size THEN Len(ids) ELSE size
    IN  [k \in 1..n |-> index[ids[k]]]

\* bloom_filter.add(url) for each url of a set.
add_each(bf, urls) ==
    [bf EXCEPT !.bit_array =
        [i \in DOMAIN bf.bit_array |->
            IF \E url \in urls, seed \in 0..(bf.hash_count - 1) : bloom_hash(bf, url, seed) = i
            THEN 1 ELSE bf.bit_array[i]]]

\* load_existing_urls() that unions the page into the local set instead of
\* assigning it.
load_existing_urls_keeps_cache(d, redis, index, down) ==
    IF ~d.opensearch_client \/ "db" \in down THEN [d |-> d, redis |-> redis, saved |-> FALSE]
    ELSE LET hits == search_all(index, SearchSize)
             with_url == SelectSeq(hits, LAMBDA hit : hit.url # 0)
             urls == {with_url[i].url : i \in 1..Len(with_url)}
         IN  IF d.redis_client /\ "redis" \in down /\ with_url # <<>>
             THEN [d |-> [d EXCEPT !.bloom_filter =
                               IF @ # None THEN <<add(@[1], with_url[1].url)>> ELSE @],
                   redis |-> redis, saved |-> FALSE]
             ELSE [d |-> [d EXCEPT !.url_cache = @ \cup urls,
                                   !.bloom_filter =
                                       IF @ # None THEN <<add_each(@[1], urls)>> ELSE @],
                   redis |-> IF d.redis_client THEN redis \cup urls ELSE redis,
                   saved |-> d.bloom_filter # None]

\* load_existing_urls() that leaves the Bloom filter as it was.
load_existing_urls_skips_bloom(d, redis, index, down) ==
    IF ~d.opensearch_client \/ "db" \in down THEN [d |-> d, redis |-> redis, saved |-> FALSE]
    ELSE LET hits == search_all(index, SearchSize)
             with_url == SelectSeq(hits, LAMBDA hit : hit.url # 0)
             urls == {with_url[i].url : i \in 1..Len(with_url)}
         IN  IF d.redis_client /\ "redis" \in down /\ with_url # <<>>
             THEN [d |-> d, redis |-> redis, saved |-> FALSE]
             ELSE [d |-> [d EXCEPT !.url_cache = urls],
                   redis |-> IF d.redis_client THEN redis \cup urls ELSE redis,
                   saved |-> d.bloom_filter # None]

\* SmartDeduplicator.load_existing_urls: the new object and the new Redis set.
\* Without an index client nothing is read.  One search of SearchSize hits is
\* made; each hit with a url goes to the Bloom filter and to Redis, and the
\* set of them becomes the local set.  Any exception ends the load quietly:
\* a failing search before anything was added, a failing sadd after the first
\* url reached the Bloom filter and before the local set is assigned.
load_existing_urls(d, redis, index, down) ==
    IF ~d.opensearch_client \/ "db" \in down THEN [d |-> d, redis |-> redis, saved |-> FALSE]
    ELSE LET hits == search_all(index, SearchSize)
             with_url == SelectSeq(hits, LAMBDA hit : hit.url # 0)
             urls == {with_url[i].url : i \in 1..Len(with_url)}
         IN  IF d.redis_client /\ "redis" \in down /\ with_url # <<>>
             THEN [d |-> [d EXCEPT !.bloom_filter =
                               IF @ # None THEN <<add(@[1], with_url[1].url)>> ELSE @],
                   redis |-> redis, saved |-> FALSE]
             ELSE [d |-> [d EXCEPT !.url_cache = urls,
                                   !.bloom_filter =
                                       IF @ # None THEN <<add_each(@[1], urls)>> ELSE @],
                   redis |-> IF d.redis_client THEN redis \cup urls ELSE redis,
                   saved |-> d.bloom_filter # None]

\* The URLs that have a document in the index.
StoredUrls(index) == {index[id].url : id \in DOMAIN index} \ {0}

\* One crawl process after construction, in front of an index of at most
\* MaxDocs documents; the shared cache starts empty.
InitLoad ==
    /\ \E strategy \in SUBSET Tiers, redis_ok \in BOOLEAN :
          dedup = [p \in {1} |-> SmartDeduplicatorNew(strategy, redis_ok)]
    /\ \E n \in 0..MaxDocs : store \in [1..n -> [url : IndexedUrls]]
    /\ index_urls = StoredUrls(store)
    /\ scraped_urls = {}
    /\ submitted = [p \in {1} |-> {}]
    /\ classified_new = [p \in {1} |-> {}]
    /\ last = NoCall
    /\ run = None
    /\ request = None
    /\ report = None
    /\ BloomIdle
    /\ SpiderIdle
    /\ RestartIdle
    /\ CacheIdle
    /\ ConcIdle

\* The process calls load_existing_urls().
LoadExistingUrls(p) ==
    /\ last = NoCall
    /\ \E down \in SUBSET Services(dedup[p]) :
        LET r == load_existing_urls(dedup[p], scraped_urls, store, down)
        IN  /\ dedup' = [dedup EXCEPT ![p] = r.d]
            /\ scraped_urls' = r.redis
            /\ last' = [op |-> "load_existing_urls", proc |-> p, down |-> down,
                        url_cache |-> dedup[p].url_cache]
            /\ files' = IF r.saved
                        THEN [files EXCEPT !.url_bloom_filter =
                                  <<save_to_file(r.d.bloom_filter[1])>>]
                        ELSE files
            /\ UNCHANGED <<index_urls, submitted, classified_new, restored>>
            /\ UNCHANGED <<bloomVars, concVars, cleanupVars, analyzerVars, cacheVars, spiderVars>>

\* The process loads the index, asks about a URL or filters a list of one URL;
\* nothing writes to the index meanwhile.
NextLoad ==
    \/ Return
    \/ \E p \in DOMAIN dedup : LoadExistingUrls(p)
    \/ \E p \in DOMAIN dedup, url \in Urls : IsUrlScraped(p, url)
    \/ \E p \in DOMAIN dedup, url \in Urls : FilterNewUrls(p, <<url>>)

SpecLoad == InitLoad /\ [][NextLoad]_vars

\* ------------------------------------------------------------------ claims
\* Positions of a verdict list that say "new", and the k-th of a set of positions.
NewPositions(verdicts) == {i \in 1..Len(verdicts) : verdicts[i] = "new"}
NthOf(S, k) == CHOOSE i \in S : Cardinality({j \in S : j < i}) = k - 1

WithRecorded(d, redis, S, down) ==
    [d     |-> [d EXCEPT
                  !.url_cache = @ \cup S,
                  !.bloom_filter =
                      IF @ = None THEN @
                      ELSE <<[@[1] EXCEPT !.bit_array =
                                [b \in DOMAIN @ |->
                                    IF \E u \in S, seed \in 0..(d.bloom_filter[1].hash_count - 1) :
                                          Digest(u, seed) % d.bloom_filter[1].bit_array_size = b
                                    THEN 1 ELSE @[b]]]>>],
     redis |-> IF d.redis_client /\ "redis" \notin down THEN redis \cup S ELSE redis]

\* C2: filter_new_urls returns, in input order, exactly the URLs that
\* is_url_scraped did not report at the moment they were reached, that is with
\* every URL classified new before them already recorded; no URL is returned
\* twice.
C2_FilterReturnsUnseenInOrder ==
    [][last'.op = "filter_new_urls" =>
        LET urls == last'.urls
            v    == last'.verdicts
            news == NewPositions(v)
            at(i) == WithRecorded(dedup[last'.proc], scraped_urls,
                                  {urls[j] : j \in {k \in news : k < i}}, last'.down)
        IN  /\ Len(v) = Len(urls)
            /\ \A i \in 1..Len(urls) :
                  (v[i] = "new") <=>
                  ~is_url_scraped(at(i).d, at(i).redis, index_urls, urls[i], last'.down).result
            /\ last'.new_urls = [k \in 1..Cardinality(news) |-> urls[NthOf(news, k)]]
            /\ \A k1, k2 \in 1..Len(last'.new_urls) :
                  last'.new_urls[k1] = last'.new_urls[k2] => k1 = k2]_vars

\* C2 witness: of a list of two URLs, the first of which has a document in the
\* store, only the second came back.
C2_Witness ==
    /\ last.op = "filter_new_urls"
    /\ Len(last.urls) = 2
    /\ last.urls[1] # last.urls[2]
    /\ last.urls[1] \in index_urls
    /\ last.new_urls = <<last.urls[2]>>

\* C4: is_url_scraped goes through the tiers cheapest first and stops at the
\* first decisive one.  An enabled Bloom filter that reports absent answers
\* "not scraped" and nothing else is consulted; otherwise a shared-cache hit
\* answers "scraped" without the later tiers, else a local-set hit does without
\* the store, else the store is asked only when it is enabled and the answer is
\* whether the lookup finds a document; no confirmation means "not scraped".
C4_TiersCheapestFirst ==
    last.op = "is_url_scraped" =>
        LET d   == dedup[last.proc]
            url == last.url
            bloomOn == ("bloom" \in d.strategy) /\ d.bloom_filter # None
            cacheOn == ("redis" \in d.strategy) /\ d.redis_client
            storeOn == ("db" \in d.strategy) /\ d.opensearch_client
            bloomAbsent == bloomOn /\ ~contains(d.bloom_filter[1], url)
            cacheHit == cacheOn /\ "redis" \notin last.down /\ url \in scraped_urls
            localHit == url \in d.url_cache
            storeHit == storeOn /\ "db" \notin last.down /\ url \in index_urls
            asked == {last.consulted[i] : i \in 1..Len(last.consulted)}
            rank(t) == CASE t = "bloom" -> 1 [] t = "redis" -> 2
                         [] t = "local" -> 3 [] t = "db" -> 4
        IN  /\ \A i, j \in 1..Len(last.consulted) :
                  i < j => rank(last.consulted[i]) < rank(last.consulted[j])
            /\ bloomAbsent => ~last.result /\ asked = {"bloom"}
            /\ ~bloomAbsent =>
                  /\ last.result = (cacheHit \/ localHit \/ storeHit)
                  /\ ("bloom" \in asked) = bloomOn
                  /\ ("redis" \in asked) = cacheOn
                  /\ ("local" \in asked) = ~cacheHit
                  /\ ("db" \in asked) = (~cacheHit /\ ~localHit /\ storeOn)

\* C4 witness: the Bloom filter reported present, the shared cache and the
\* local set missed, and the store lookup found the document.
C4_Witness ==
    /\ last.op = "is_url_scraped"
    /\ last.consulted = <<"bloom", "redis", "local", "db">>
    /\ last.result

C3_NoFalseNegatives ==
    /\ \A item \in added : contains(bloom[1], item)
    /\ (answer # None /\ answer[1].item \in added) => answer[1].result

\* C3 witness: contains() answered true for an item added before another one.
C3_Witness ==
    /\ answer # None
    /\ answer[1].item \in added
    /\ Cardinality(added) >= 2
    /\ answer[1].result

\* The URLs a caller has classified new so far.
NewOf(t) == {threads[t].new_urls[i] : i \in 1..Len(threads[t].new_urls)}

\* C6: of two callers that share one SmartDeduplicator, at most one classifies
\* a given URL new.
C6_OneNewPerProcess ==
    \A t1, t2 \in DOMAIN threads :
        (t1 # t2 /\ threads[t1].proc = threads[t2].proc)
        => NewOf(t1) \cap NewOf(t2) = {}

\* C7: of two crawl processes that share the Redis set, at most one obtains
\* "new" for a given URL.  Stated for the strategies without a Bloom filter,
\* where a process never answers before it has asked the shared cache.
C7_OneNewAcrossProcesses ==
    \A t1, t2 \in DOMAIN threads :
        (/\ threads[t1].proc # threads[t2].proc
         /\ dedup[threads[t1].proc].redis_client
         /\ dedup[threads[t2].proc].redis_client
         /\ "bloom" \notin dedup[threads[t1].proc].strategy)
        => NewOf(t1) \cap NewOf(t2) = {}

\* C8: a URL that is in the shared cache is reported as scraped by every
\* process that has a client for that cache.
C8_SharedCacheIsAuthority ==
    \A p \in DOMAIN dedup :
        dedup[p].redis_client =>
            \A url \in scraped_urls :
                is_url_scraped(dedup[p], scraped_urls, index_urls, url, {}).result

\* C9: a dry run sends no bulk request and leaves the index as it found it,
\* whatever the cleanup types and the strategy.
C9_DryRunDeletesNothing ==
    [][(run' # None /\ run'[1].dry_run) => (store' = store /\ run'[1].sent = 0)]_vars

\* C9 witness: a dry run of all three types reported documents to remove.
C9_Witness ==
    /\ run # None
    /\ run[1].dry_run
    /\ run[1].cleanup_types = CleanupTypes
    /\ run[1].stats.total_removed >= 2

\* C10: the total_removed of a live run in which no request met a transport
\* error equals the total_removed a dry run of the same types and strategy
\* reports on the index the live run started from.
C10_DryRunTotalEqualsLiveTotal ==
    [][(run' # None /\ ~run'[1].dry_run /\ run'[1].fault = 0) =>
        run'[1].stats.total_removed =
            run_cleanup(DuplicateCleanupNew(store, TRUE, 0), run'[1].cleanup_types,
                        run'[1].strategy, DefaultThreshold).stats.total_removed]_vars

\* The ids of a list of documents.
IdsOf(docs) == {docs[i].id : i \in 1..Len(docs)}

\* Of every group exactly one member stays out of the removal set, the removal
\* set holds nothing but the other members, and the member kept has the
\* largest timestamp (latest), the smallest timestamp (first) or the longest
\* text (longest_content) of its group.
KeepsOnePerGroup(duplicate_groups, strategy) ==
    LET to_remove == select_documents_to_keep(duplicate_groups, strategy)
    IN  /\ to_remove \subseteq UNION {IdsOf(duplicate_groups[g]) : g \in DOMAIN duplicate_groups}
        /\ \A g \in DOMAIN duplicate_groups :
              LET docs == duplicate_groups[g]
                  kept == {i \in 1..Len(docs) : docs[i].id \notin to_remove}
              IN  /\ Cardinality(kept) = 1
                  /\ Cardinality(IdsOf(docs) \cap to_remove) = Len(docs) - 1
                  /\ \A k \in kept, i \in 1..Len(docs) :
                        CASE strategy = "latest" -> docs[i].timestamp <= docs[k].timestamp
                          [] strategy = "first" -> docs[i].timestamp >= docs[k].timestamp
                          [] strategy = "longest_content" ->
                                TextLen(docs[i].text_content) <= TextLen(docs[k].text_content)

\* C11: in every run, for the groups of each of the three kinds found in the
\* documents the run fetched, select_documents_to_keep keeps exactly one member
\* of each group, the one the strategy names, and removes exactly the others.
C11_KeepsExactlyOnePerGroup ==
    [][run' # None =>
        LET documents == get_all_documents(store)
        IN  /\ KeepsOnePerGroup(find_url_duplicates(documents), run'[1].strategy)
            /\ KeepsOnePerGroup(find_content_duplicates(documents), run'[1].strategy)
            /\ KeepsOnePerGroup(find_similar_content(documents, DefaultThreshold, documents),
                                run'[1].strategy)]_vars

\* C11 witness: a live run with strategy latest on three documents of one URL,
\* the second the latest, removed the first and the third.
C11_Witness ==
    /\ run # None
    /\ ~run[1].dry_run
    /\ run[1].strategy = "latest"
    /\ run[1].cleanup_types = {"url"}
    /\ run[1].stats.processed = 3
    /\ run[1].stats.url_duplicates_removed = 2
    /\ DOMAIN store = {2}
    /\ store[2].timestamp = 2

\* The removal set a phase of run_cleanup computes from the documents fetched
\* at the start of the run.
RemovalSet(type, documents, strategy) ==
    select_documents_to_keep(
        CASE type = "url" -> find_url_duplicates(documents)
          [] type = "content" -> find_content_duplicates(documents)
          [] type = "similar" -> find_similar_content(documents, DefaultThreshold, documents),
        strategy)

\* C12: the removal sets of the phases of one run are pairwise disjoint: a
\* document selected by an earlier phase is not selected again by a later one.
C12_RemovalSetsDisjoint ==
    [][run' # None =>
        LET documents == get_all_documents(store)
        IN  \A t1, t2 \in run'[1].cleanup_types :
                t1 # t2 =>
                    RemovalSet(t1, documents, run'[1].strategy)
                    \cap RemovalSet(t2, documents, run'[1].strategy) = {}]_vars

\* The number of bulk requests n ids go out in, and the number of ids in
\* request k of them.
Requests(n) == (n + ChunkSize - 1) \div ChunkSize
RequestSize(n, k) == IF k * ChunkSize <= n THEN ChunkSize ELSE n - (k - 1) * ChunkSize

\* C13: in a live run of one cleanup type in which request number fault of the
\* removal set met a transport error, errors is the number of ids in that
\* request and every request of the removal set was sent.
C13_FailedChunkCountsItsIds ==
    [][(run' # None /\ ~run'[1].dry_run /\ Cardinality(run'[1].cleanup_types) = 1) =>
        \A type \in run'[1].cleanup_types :
            LET n == Cardinality(RemovalSet(type, get_all_documents(store), run'[1].strategy))
                k == run'[1].fault
            IN  (k >= 1 /\ k <= Requests(n)) =>
                    /\ run'[1].stats.errors = RequestSize(n, k)
                    /\ run'[1].sent = Requests(n)]_vars

\* C14: a delete failure in one phase does not end the run.  In a live run
\* whose phases selected pairwise disjoint removal sets, at most one phase (the
\* one whose request met the transport error) left any of its ids in the index;
\* every other enabled phase deleted its whole removal set, and the stats
\* returned count exactly those phases and report the error.
C14_FailureDoesNotAbortRun ==
    [][(run' # None /\ ~run'[1].dry_run) =>
        LET documents == get_all_documents(store)
            types == run'[1].cleanup_types
            R(t) == RemovalSet(t, documents, run'[1].strategy)
            failed == {t \in types : R(t) \cap DOMAIN store' # {}}
            count(t) == IF t \in types \ failed THEN Cardinality(R(t)) ELSE 0
            stats == run'[1].stats
        IN  (\A t1, t2 \in types : t1 # t2 => R(t1) \cap R(t2) = {}) =>
                /\ Cardinality(failed) <= 1
                /\ DOMAIN stats = {"processed", "url_duplicates_removed",
                                   "content_duplicates_removed", "total_removed", "errors"}
                /\ stats.processed = Len(documents)
                /\ stats.url_duplicates_removed = count("url")
                /\ stats.content_duplicates_removed = count("content")
                /\ stats.total_removed = count("url") + count("content") + count("similar")
                /\ (stats.errors > 0) <=> (failed # {})]_vars

\* C14 witness: the only request of the url phase met the error, and the
\* content phase after it deleted its document.
C14_Witness ==
    /\ run # None
    /\ run[1].cleanup_types = {"url", "content"}
    /\ run[1].fault = 1
    /\ run[1].stats.processed = 3
    /\ run[1].stats.errors = 1
    /\ run[1].stats.url_duplicates_removed = 0
    /\ run[1].stats.content_duplicates_removed = 1
    /\ run[1].stats.total_removed = 1
    /\ Cardinality(DOMAIN store) = 2

\* C15: after every live run, total_removed is the number of documents the
\* run deleted from the index.
C15_TotalRemovedIsDeleted ==
    [][(run' # None /\ ~run'[1].dry_run) =>
        run'[1].stats.total_removed = Cardinality(DOMAIN store \ DOMAIN store')]_vars

\* C16: on every entry point, a request that did not explicitly ask for a live
\* run deletes no document.
C16_DryRunIsTheDefault ==
    [][(request' # None /\ ~request'[1].live_requested) => store' = store]_vars

\* C17: a request with an unknown strategy name or a similarity threshold
\* outside [0,1] ends in an error, with the store neither scanned nor changed.
C17_InvalidConfigurationRejected ==
    [][(/\ request' # None
        /\ ~ValidConfiguration(request'[1].strategy, request'[1].similarity_threshold))
       => (request'[1].outcome = "error" /\ run' = None /\ store' = store)]_vars

\* The documents of the index that have a URL, and those that also have text.
WithUrl == {i \in DOMAIN store : store[i].url # 0}
WithText == {i \in DOMAIN store : store[i].text_content # ""}

\* C18: analyze_url_duplicates reports the number of distinct URLs of the
\* index, the number of URLs held by more than one document, and the number of
\* documents beyond the first of each URL.
C18_UrlCountsOfTheStore ==
    (report # None /\ report[1].op = "analyze_url_duplicates") =>
        LET urls == {store[i].url : i \in WithUrl}
            count(url) == Cardinality({i \in WithUrl : store[i].url = url})
            r == report[1].result
        IN  /\ r.unique_urls = Cardinality(urls)
            /\ r.duplicate_urls = Cardinality({url \in urls : count(url) > 1})
            /\ r.total_duplicates = Cardinality(WithUrl) - Cardinality(urls)

\* C19: analyze_content_duplicates reports one group for every text held by
\* more than one document with non-empty text, whatever their URLs, and
\* total_content_duplicates is the number of documents beyond the first of
\* each text.
C19_ContentGroupsOfTheStore ==
    (report # None /\ report[1].op = "analyze_content_duplicates") =>
        LET texts == {store[i].text_content : i \in WithText}
            count(text) == Cardinality({i \in WithText : store[i].text_content = text})
            r == report[1].result
        IN  /\ r.duplicate_content_groups = Cardinality({t \in texts : count(t) > 1})
            /\ \A t \in texts :
                  count(t) > 1 =>
                      /\ md5(t) \in DOMAIN r.duplicate_details
                      /\ Len(r.duplicate_details[md5(t)]) = count(t)
            /\ r.total_content_duplicates = Cardinality(WithText) - Cardinality(texts)

\* The groups a document id is a member of.
GroupsOf(groups, id) == {g \in 1..Len(groups) : id \in IdsOf(groups[g])}

\* groups is the greedy clustering by seed of the list visited.  A document
\* of at least 100 characters that no earlier seed took is a seed; a later long
\* document that no earlier seed took joins it exactly when its ratio to the
\* seed reaches the threshold; a group's first member is its seed, and short
\* documents are in no group.
GreedyBySeed(visited, groups, threshold) ==
    LET long(q) == TextLen(visited[q].text_content) >= 100
        owner(q) == IF GroupsOf(groups, visited[q].id) = {} THEN q
                    ELSE LET g == CHOOSE h \in GroupsOf(groups, visited[q].id) : TRUE
                         IN  CHOOSE p \in 1..Len(visited) : visited[p].id = groups[g][1].id
    IN  /\ \A g \in 1..Len(groups) :
              IdsOf(groups[g]) \subseteq IdsOf(visited)
        /\ \A q \in 1..Len(visited) :
              /\ owner(q) <= q
              /\ ~long(q) => GroupsOf(groups, visited[q].id) = {}
        /\ \A p, q \in 1..Len(visited) :
              (p < q /\ long(p) /\ long(q) /\ owner(p) = p /\ owner(q) >= p) =>
                  (owner(q) = p <=>
                   Ratio(visited[p].text_content, visited[q].text_content) >= threshold)

\* Every document is in at most one group; among the documents of the list
\* given, two long ones of identical text are in one group together, and two
\* that share no character are in no group together.
GroupsSeparate(among, groups) ==
    /\ \A i \in 1..Len(among) : Cardinality(GroupsOf(groups, among[i].id)) <= 1
    /\ \A i, j \in 1..Len(among) :
          LET ti == among[i].text_content
              tj == among[j].text_content
          IN  /\ (i # j /\ ti = tj /\ TextLen(ti) >= 100) =>
                     GroupsOf(groups, among[i].id) \cap GroupsOf(groups, among[j].id) # {}
              /\ Ratio(ti, tj) = 0 =>
                     GroupsOf(groups, among[i].id) \cap GroupsOf(groups, among[j].id) = {}

\* C20 as stated: the groups returned are the greedy clustering by seed of the
\* documents in input order, and two long documents of the input with
\* identical text are in one group.
C20_GreedyOverTheInput ==
    (report # None /\ report[1].op = "find_similar_content") =>
        /\ GreedyBySeed(report[1].documents, report[1].result,
                        report[1].similarity_threshold)
        /\ GroupsSeparate(report[1].documents, report[1].result)

\* C20 amended: the groups returned are the greedy clustering by seed of the
\* documents compared, which are the input in input order when it has at most
\* SampleCap documents and a random sample of SampleCap of them, in the order
\* drawn, otherwise; two long documents with identical text that are both
\* compared are in one group.
C20_GreedyOverTheCompared ==
    (report # None /\ report[1].op = "find_similar_content") =>
        /\ Len(report[1].documents) <= SampleCap => report[1].compared = report[1].documents
        /\ Len(report[1].documents) > SampleCap =>
               /\ Len(report[1].compared) = SampleCap
               /\ IdsOf(report[1].compared) \subseteq IdsOf(report[1].documents)
        /\ GreedyBySeed(report[1].compared, report[1].result,
                        report[1].similarity_threshold)
        /\ GroupsSeparate(report[1].compared, report[1].result)

\* C20 witness: of pageA, pageA2, pageA3 in this order, pageA2 joined the seed
\* pageA and pageA3, close to pageA2 but not to the seed, stayed out.
C20_Witness ==
    /\ report # None
    /\ report[1].op = "find_similar_content"
    /\ Len(report[1].documents) = 3
    /\ report[1].documents[1].text_content = "pageA"
    /\ report[1].documents[2].text_content = "pageA2"
    /\ report[1].documents[3].text_content = "pageA3"
    /\ Len(report[1].result) = 1
    /\ IdsOf(report[1].result[1]) = {1, 2}

\* The groups of a mapping that have fewer than two members, or that list one
\* document twice.
SmallGroups(groups) ==
    {g \in DOMAIN groups :
        Len(groups[g]) < 2 \/ Cardinality(IdsOf(groups[g])) # Len(groups[g])}

\* C21: whatever the index holds, each of find_url_duplicates,
\* find_content_duplicates and find_similar_content returns only groups of at
\* least two distinct documents of the scan, and the groups that reach
\* select_documents_to_keep in a run are those groups.
C21_GroupsHaveTwoMembers ==
    LET documents == get_all_documents(store)
    IN  /\ SmallGroups(find_url_duplicates(documents)) = {}
        /\ SmallGroups(find_content_duplicates(documents)) = {}
        /\ SmallGroups(find_similar_content(documents, DefaultThreshold, documents)) = {}

\* C21 witness: a run scanned an index in which one URL has two documents and
\* another has one; only the first is a group.  The same holds for the texts.
C21_Witness ==
    LET documents == get_all_documents(store)
    IN  /\ run # None
        /\ run[1].dry_run
        /\ run[1].cleanup_types = {"url", "content"}
        /\ Len(documents) = 3
        /\ Cardinality({documents[i].url : i \in 1..3}) = 2
        /\ Cardinality(DOMAIN find_url_duplicates(documents)) = 1
        /\ Cardinality({documents[i].text_content : i \in 1..3}) = 2
        /\ Cardinality(DOMAIN find_content_duplicates(documents)) = 1
        /\ run[1].stats.total_removed = 2

\* The deduplicator d with the tiers in `off` disabled: no client for them.
WithoutTiers(d, off) ==
    [d EXCEPT !.redis_client = @ /\ "redis" \notin off,
              !.opensearch_client = @ /\ "db" \notin off]

\* C22: is_url_scraped always returns an answer, and with the shared cache
\* and/or the index failing during the call the answer and the other tiers
\* consulted are those of the same deduplicator without the failing tiers.
C22_FailedTierIsSkipped ==
    (last # NoCall /\ last.op = "is_url_scraped") =>
        LET d == dedup[last.proc]
            r == is_url_scraped(WithoutTiers(d, last.down), scraped_urls, index_urls,
                                last.url, {})
        IN  /\ last.result \in BOOLEAN
            /\ last.result = r.result
            /\ SelectSeq(last.consulted, LAMBDA t : t \notin last.down) = r.consulted

\* C22 witness: the shared cache holds the URL but fails; the check went on to
\* the local set and the index, which do not have it, and answered False.
C22_Witness ==
    /\ last # NoCall
    /\ last.op = "is_url_scraped"
    /\ last.down = {"redis"}
    /\ last.url \in scraped_urls
    /\ last.url \notin index_urls
    /\ last.consulted = <<"bloom", "redis", "local", "db">>
    /\ last.result = FALSE

\* C23: after a load_existing_urls() during which no service failed, by a
\* deduplicator that has an index client, every URL with a document in the
\* index is in the local set and in the Bloom filter (when there is one), and
\* is_url_scraped answers True for it without consulting the index.
C23_LoadCoversTheStore ==
    (last # NoCall /\ last.op = "load_existing_urls" /\ last.down = {}
     /\ dedup[last.proc].opensearch_client) =>
        LET d == dedup[last.proc]
        IN  \A url \in StoredUrls(store) :
                LET r == is_url_scraped(d, scraped_urls, index_urls, url, {})
                IN  /\ url \in d.url_cache
                    /\ d.bloom_filter # None => contains(d.bloom_filter[1], url)
                    /\ r.result
                    /\ \A k \in 1..Len(r.consulted) : r.consulted[k] # "db"

\* A step in which the filter object keeps its size and its number of hash
\* functions and loses no bit.
SizesKeptBitsOnlySet ==
    /\ bloom'[1].capacity = bloom[1].capacity
    /\ bloom'[1].bit_array_size = bloom[1].bit_array_size
    /\ bloom'[1].hash_count = bloom[1].hash_count
    /\ DOMAIN bloom'[1].bit_array = DOMAIN bloom[1].bit_array
    /\ \A i \in DOMAIN bloom[1].bit_array :
          bloom[1].bit_array[i] = 1 => bloom'[1].bit_array[i] = 1

\* A step in which load_from_file builds a new object: what it assigns over
\* the constructed attributes is the size and hash count the constructor
\* computed, and the bits go from all clear to those of the file.
LoadedAsConstructed ==
    /\ bloom_file # None
    /\ bloom' = <<load_from_file(bloom_file[1].data)>>
    /\ LET constructed == BloomFilterNew(json_get(bloom_file[1].data, "capacity"))
       IN  /\ bloom'[1].bit_array_size = constructed.bit_array_size
           /\ bloom'[1].hash_count = constructed.hash_count
           /\ DOMAIN bloom'[1].bit_array = DOMAIN constructed.bit_array

\* C24: over every add(), contains() and save_to_file() on a filter object its
\* bit_array_size and hash_count stay what they were and no bit goes from 1 to
\* 0; an object built by load_from_file has the size and hash count its
\* constructor computed.
C24_SizesFixedBitsOnlySet ==
    [][SizesKeptBitsOnlySet \/ LoadedAsConstructed]_vars

\* C24 witness: items were added to a filter that came from a snapshot, one of
\* them twice over, and contains() was asked.
C24_Witness ==
    /\ bloom_file # None
    /\ bloom_file[1].items # {}
    /\ bloom_file[1].items \subseteq added
    /\ Cardinality(added) >= 2
    /\ \E i \in DOMAIN bloom[1].bit_array : bloom[1].bit_array[i] = 1
    /\ \E i \in DOMAIN bloom[1].bit_array : bloom[1].bit_array[i] = 0
    /\ answer # None

\* C25: for every filter the program reaches, load_from_file of what
\* save_to_file writes has the same capacity, error rate, bit_array_size,
\* hash_count and bits, answers contains() alike for every item, and is saved
\* as the same snapshot; every snapshot on disk loads to a filter that saves
\* to it again.
C25_SnapshotRoundTrips ==
    /\ LET bf == bloom[1]
           loaded == load_from_file(save_to_file(bf))
       IN  /\ loaded.capacity = bf.capacity
           /\ loaded.error_rate = bf.error_rate
           /\ loaded.bit_array_size = bf.bit_array_size
           /\ loaded.hash_count = bf.hash_count
           /\ loaded.bit_array = bf.bit_array
           /\ \A item \in Items : contains(loaded, item) = contains(bf, item)
           /\ save_to_file(loaded) = save_to_file(bf)
    /\ bloom_file # None =>
          save_to_file(load_from_file(bloom_file[1].data)) = bloom_file[1].data

\* C25 witness: a filter holding an item was saved and loaded again, and
\* another item was added after the load, so the filter in use is ahead of the
\* snapshot.
C25_Witness ==
    /\ bloom_file # None
    /\ bloom_file[1].items # {}
    /\ added # bloom_file[1].items
    /\ bloom_file[1].items \subseteq added
    /\ save_to_file(bloom[1]) # bloom_file[1].data
    /\ answer # None
    /\ answer[1].result

\* C26: in a live run in which no request met a transport error, a phase whose
\* removal set holds an id an earlier phase of the run already deleted records
\* no error and reports its removal set as removed: errors stays 0 and every
\* enabled phase counts its whole removal set.
C26_DeletingAbsentIdIsNoError ==
    [][(run' # None /\ ~run'[1].dry_run /\ run'[1].fault = 0) =>
        LET documents == get_all_documents(store)
            types == run'[1].cleanup_types
            count(t) == IF t \in types
                        THEN Cardinality(RemovalSet(t, documents, run'[1].strategy))
                        ELSE 0
        IN  /\ run'[1].stats.errors = 0
            /\ run'[1].stats.url_duplicates_removed = count("url")
            /\ run'[1].stats.content_duplicates_removed = count("content")
            /\ run'[1].stats.total_removed =
                   count("url") + count("content") + count("similar")]_vars

\* C27: in every run each enabled type makes at most one bulk() call, and none
\* when its removal set is empty or the run is dry.  After a live run in which
\* no delete failed the index holds the documents scanned minus the removal
\* sets of the enabled types, and after such a run of the url type alone every
\* URL that had documents has exactly one.
C27_OneRemovalSetPerType ==
    [][run' # None =>
        LET documents == get_all_documents(store)
            types == run'[1].cleanup_types
            R(t) == RemovalSet(t, documents, run'[1].strategy)
            left == get_all_documents(store')
        IN  /\ run'[1].calls <= Cardinality(types)
            /\ run'[1].dry_run => run'[1].calls = 0
            /\ (~run'[1].dry_run /\ run'[1].stats.errors = 0) =>
                  /\ run'[1].calls = Cardinality({t \in types : R(t) # {}})
                  /\ DOMAIN store' = DOMAIN store \ UNION {R(t) : t \in types}
                  /\ \A id \in DOMAIN store' : store'[id] = store[id]
                  /\ types = {"url"} =>
                        \A url \in {documents[i].url : i \in 1..Len(documents)} :
                            Len(SelectSeq(left, LAMBDA doc : doc.url = url)) = 1]_vars

\* C27 witness: a live url run on four documents, two of each URL, removed one
\* document of each group with one bulk() call.
C27_Witness ==
    /\ run # None
    /\ ~run[1].dry_run
    /\ run[1].cleanup_types = {"url"}
    /\ run[1].stats.processed = 4
    /\ run[1].stats.url_duplicates_removed = 2
    /\ run[1].stats.errors = 0
    /\ run[1].calls = 1
    /\ run[1].sent = Requests(2)
    /\ {store[id].url : id \in DOMAIN store} = DocUrls
    /\ Cardinality(DOMAIN store) = 2

\* The members of a group that share the key the strategy selects on: the
\* largest timestamp (latest), the smallest (first), the longest text.
TiedForKey(docs, strategy) ==
    {i \in 1..Len(docs) :
        \A j \in 1..Len(docs) :
            CASE strategy = "latest" -> docs[j].timestamp <= docs[i].timestamp
              [] strategy = "first" -> docs[j].timestamp >= docs[i].timestamp
              [] strategy = "longest_content" ->
                    TextLen(docs[j].text_content) <= TextLen(docs[i].text_content)}

\* C28: of the members of a group that tie on the selection key, the one kept
\* is the one that comes first in scan order (ids number the documents in scan
\* order): after a cleanup of similar content every other member of the group
\* is gone from the index and that one is left.
C28_TieKeepsFirstScanned ==
    (report # None /\ report[1].op = "cleanup_similar_content") =>
        LET groups == find_similar_content(report[1].documents, DefaultThreshold,
                                           report[1].compared)
        IN  \A g \in DOMAIN groups :
                LET docs == groups[g]
                    tied == {docs[i].id : i \in TiedForKey(docs, report[1].strategy)}
                    first == CHOOSE id \in tied : \A other \in tied : id <= other
                IN  IdsOf(docs) \cap report[1].left = {first}

\* C29: every phase of a run decides on the documents fetched at the start of
\* the run.  processed is their number; a dry run reports the removal sets
\* computed from them; a live run makes one bulk() call for each enabled type
\* whose removal set, computed from them, is not empty, also when an earlier
\* phase has deleted some of its ids, and deletes nothing outside those sets.
C29_PhasesDecideOnOneFetch ==
    [][run' # None =>
        LET documents == get_all_documents(store)
            types == run'[1].cleanup_types
            R(t) == IF t \in types THEN RemovalSet(t, documents, run'[1].strategy) ELSE {}
        IN  /\ run'[1].stats.processed = Len(documents)
            /\ run'[1].dry_run =>
                  run'[1].stats.total_removed =
                      Cardinality(R("url")) + Cardinality(R("content"))
                      + Cardinality(R("similar"))
            /\ ~run'[1].dry_run =>
                  /\ run'[1].calls = Cardinality({t \in types : R(t) # {}})
                  /\ DOMAIN store \ DOMAIN store' \subseteq UNION {R(t) : t \in types}
                  /\ R("url") \cap DOMAIN store' = {}]_vars

\* C29 witness: in a live run of both types the content phase asked for a
\* document the url phase had deleted, as the fetch at the start still listed
\* it.
C29_Witness ==
    /\ run # None
    /\ ~run[1].dry_run
    /\ run[1].cleanup_types = {"url", "content"}
    /\ run[1].calls = 2
    /\ run[1].stats.processed = 4
    /\ run[1].stats.url_duplicates_removed > 0
    /\ run[1].stats.errors > 0

\* The visits of a URL: the documents of the index that carry it and a
\* timestamp; and those of them whose timestamp is a date.
Visits(url) == {id \in DOMAIN store : store[id].url = url /\ store[id].timestamp # 0}
DatedVisits(url) == {id \in Visits(url) : store[id].timestamp \notin Unparsable}

\* Two dated visits of the URL less than `span` minutes apart that fall into
\* the same period of `period` minutes.
VisitedTwiceWithin(url, period, span) ==
    \E a, b \in DatedVisits(url) :
        /\ a # b
        /\ store[a].timestamp \div period = store[b].timestamp \div period
        /\ store[a].timestamp - store[b].timestamp < span
        /\ store[b].timestamp - store[a].timestamp < span

\* C30: url_frequency maps exactly the URLs with more than one visit in the
\* index to their number of visits; same_day_duplicates, same_hour_duplicates
\* and rapid_duplicates are the numbers of those URLs with two visits on one
\* day, in one hour of one day, and less than five minutes apart.
C30_TemporalCountsOfTheStore ==
    (report # None /\ report[1].op = "analyze_temporal_patterns") =>
        LET patterns == report[1].result
            repeated == {url \in DocUrls : Cardinality(Visits(url)) > 1}
            whole == 1440 * 100000
        IN  /\ DOMAIN patterns.url_frequency = repeated
            /\ \A url \in repeated :
                  patterns.url_frequency[url] = Cardinality(Visits(url))
            /\ patterns.same_day_duplicates =
                   Cardinality({url \in repeated : VisitedTwiceWithin(url, 1440, whole)})
            /\ patterns.same_hour_duplicates =
                   Cardinality({url \in repeated : VisitedTwiceWithin(url, 60, whole)})
            /\ patterns.rapid_duplicates =
                   Cardinality({url \in repeated : VisitedTwiceWithin(url, whole, 5)})

\* C31: a URL added to the shared cache is a member of it from the day of its
\* marking until 7 days later and not after, whatever else has been marked
\* meanwhile.
C31_EntryExpiresAfterItsOwnHorizon ==
    \A url \in Urls :
        marked_at[url] # None =>
            (url \in scraped_urls <=> clock < marked_at[url][1] + Horizon)

\* C32: on an index that one search page holds in full, the number of
\* documents a dry run of the url type reports equals the total_duplicates of
\* analyze_url_duplicates, and the number a dry run of the content type
\* reports equals the total_content_duplicates of analyze_content_duplicates.
C32_CleanupCountsWhatTheAnalyzerReports ==
    (report # None /\ Cardinality(DOMAIN store) <= SearchSize) =>
        LET dry(types) == run_cleanup(DuplicateCleanupNew(store, TRUE, 0), types,
                                      "latest", DefaultThreshold).stats.total_removed
        IN  /\ report[1].op = "analyze_url_duplicates" =>
                  dry({"url"}) = report[1].result.total_duplicates
            /\ report[1].op = "analyze_content_duplicates" =>
                  dry({"content"}) = report[1].result.total_content_duplicates

\* C33: a URL that filter_new_urls has marked as scraped in a process is
\* reported as scraped by every later is_url_scraped call of that process,
\* whatever calls of load_existing_urls came in between.
C33_MarkedStaysScraped ==
    (last # NoCall /\ last.op = "is_url_scraped"
     /\ last.url \in classified_new[last.proc]) => last.result

\* ---------------------------------------------------- save_state and restart
\* SmartDeduplicator.save_state: the Bloom filter, if there is one, goes to
\* url_bloom_filter.json and list(self.url_cache) goes to url_cache.json.
save_state(d, dir) ==
    [url_bloom_filter |-> IF d.bloom_filter # None
                          THEN <<save_to_file(d.bloom_filter[1])>>
                          ELSE dir.url_bloom_filter,
     url_cache        |-> <<d.url_cache>>]

\* SmartDeduplicator._init_bloom_filter: the filter of url_bloom_filter.json
\* if the file exists, a new filter otherwise.
init_bloom_filter(dir) ==
    IF dir.url_bloom_filter # None
    THEN load_from_file(dir.url_bloom_filter[1])
    ELSE BloomFilterNew(Capacity)

\* SmartDeduplicator.__init__ in a directory that may hold the files of an
\* earlier process: url_cache starts empty and url_cache.json is not read.
SmartDeduplicatorIn(dir, strategy, redis_ok) ==
    [SmartDeduplicatorNew(strategy, redis_ok) EXCEPT
        !.bloom_filter = IF "bloom" \in strategy THEN <<init_bloom_filter(dir)>> ELSE None]

\* __init__ that also reads url_cache.json back into the local set.
SmartDeduplicatorIn_restores_cache(dir, strategy, redis_ok) ==
    [SmartDeduplicatorNew(strategy, redis_ok) EXCEPT
        !.bloom_filter = IF "bloom" \in strategy THEN <<init_bloom_filter(dir)>> ELSE None,
        !.url_cache = IF dir.url_cache # None THEN dir.url_cache[1] ELSE {}]

\* The process calls save_state().
SaveState(p) ==
    /\ last = NoCall
    /\ files' = save_state(dedup[p], files)
    /\ restored' = FALSE
    /\ UNCHANGED dedupVars
    /\ UNCHANGED <<bloomVars, concVars, cleanupVars, analyzerVars, cacheVars, spiderVars>>

\* The process ends and a new one is started in the same directory with the
\* same strategy and the same Redis server.
Restart(p) ==
    /\ last = NoCall
    /\ dedup' = [dedup EXCEPT ![p] =
                    SmartDeduplicatorIn(files, dedup[p].strategy, dedup[p].redis_client)]
    /\ submitted' = [submitted EXCEPT ![p] = {}]
    /\ classified_new' = [classified_new EXCEPT ![p] = {}]
    /\ restored' = (files.url_cache # None)
    /\ UNCHANGED <<scraped_urls, index_urls, last, files>>
    /\ UNCHANGED <<bloomVars, concVars, cleanupVars, analyzerVars, cacheVars, spiderVars>>

NextRestart ==
    \/ Return
    \/ \E p \in DOMAIN dedup : SaveState(p)
    \/ \E p \in DOMAIN dedup : Restart(p)
    \/ \E p \in DOMAIN dedup, url \in Urls : IsUrlScraped(p, url)
    \/ \E p \in DOMAIN dedup, url \in Urls : FilterNewUrls(p, <<url>>)

SpecRestart == InitDedup /\ [][NextRestart]_vars

\* C34: with a strategy that enables the Bloom filter, a URL that was in the
\* state save_state() saved is reported as scraped by the process that is
\* started afterwards in the same directory.
C34_SeenSurvivesRestart ==
    (/\ last # NoCall
     /\ last.op = "is_url_scraped"
     /\ restored
     /\ "bloom" \in dedup[last.proc].strategy
     /\ last.url \in files.url_cache[1]) => last.result

\* C35: whenever a deduplicator has a Bloom filter, every URL of its local set
\* is contained in the filter, so a URL the local set holds is never answered
\* "not scraped" by the Bloom filter's absence.
C35_LocalSetWithinBloom ==
    \A p \in DOMAIN dedup :
        dedup[p].bloom_filter # None =>
            /\ \A url \in dedup[p].url_cache : contains(dedup[p].bloom_filter[1], url)
            /\ \A url \in dedup[p].url_cache :
                   \A down \in SUBSET Services(dedup[p]) :
                       is_url_scraped(dedup[p], scraped_urls, index_urls, url, down).result

\* C35 witness: load_existing_urls has just put into the local set of a
\* deduplicator with a Bloom filter a URL the process had never marked, and
\* the set also holds nothing the load did not bring.
C35_Witness ==
    /\ last # NoCall
    /\ last.op = "load_existing_urls"
    /\ dedup[last.proc].bloom_filter # None
    /\ \E url \in dedup[last.proc].url_cache :
           /\ url \notin last.url_cache
           /\ url \notin classified_new[last.proc]

\* The duplicate groups a phase of run_cleanup finds in the documents fetched
\* at the start of the run.
GroupsFound(type, documents) ==
    CASE type = "url" -> find_url_duplicates(documents)
      [] type = "content" -> find_content_duplicates(documents)

\* C36: in a run with several types, every duplicate group found by an enabled
\* type keeps at least one member outside the union of the removal sets of all
\* types of the run.
C36_NoGroupWipedOut ==
    [][run' # None =>
        LET documents == get_all_documents(store)
            types == run'[1].cleanup_types
            removed == UNION {RemovalSet(t, documents, run'[1].strategy) : t \in types}
        IN  \A t \in types :
                LET groups == GroupsFound(t, documents)
                IN  \A key \in DOMAIN groups :
                        \E i \in 1..Len(groups[key]) : groups[key][i].id \notin removed]_vars

\* The stats of a run add up: total_removed is the sum of the two counters,
\* and a phase whose delete failed (here: the content phase, when it sends an
\* id the url phase has deleted) adds nothing to its counter or to the total.
StatsAddUp(before, r) ==
    LET documents == get_all_documents(before)
        url_set == RemovalSet("url", documents, r.strategy)
        content_set == RemovalSet("content", documents, r.strategy)
        content_failed == /\ ~r.dry_run
                          /\ {"url", "content"} \subseteq r.cleanup_types
                          /\ url_set \cap content_set # {}
    IN  /\ r.stats.total_removed =
               r.stats.url_duplicates_removed + r.stats.content_duplicates_removed
        /\ "url" \in r.cleanup_types =>
               r.stats.url_duplicates_removed = Cardinality(url_set)
        /\ "url" \notin r.cleanup_types => r.stats.url_duplicates_removed = 0
        /\ r.stats.content_duplicates_removed =
               IF "content" \in r.cleanup_types /\ ~content_failed
               THEN Cardinality(content_set) ELSE 0
        /\ (r.stats.errors > 0) = content_failed

\* C37: after run_cleanup with types among url and content on a new object,
\* total_removed is the sum of the two counters, a type whose delete failed
\* adds 0 to its counter and to the total, and total_removed is at most
\* processed.
C37_StatsConsistent ==
    [][run' # None =>
        /\ StatsAddUp(store, run'[1])
        /\ run'[1].stats.total_removed <= run'[1].stats.processed]_vars

\* C38: in the result of analyze_temporal_patterns the same-hour count is at
\* most the same-day count, which is at most the number of entries of
\* url_frequency: a URL flagged for the same hour is flagged for the same day
\* too, and both flags are raised for repeated URLs only.
C38_SameHourWithinSameDay ==
    (report # None /\ report[1].op = "analyze_temporal_patterns") =>
        LET patterns == report[1].result
        IN  /\ patterns.same_hour_duplicates <= patterns.same_day_duplicates
            /\ patterns.same_day_duplicates <= Cardinality(DOMAIN patterns.url_frequency)

\* C38 witness: an analysis that flagged a URL for the same hour, and with it
\* for the same day.
C38_Witness ==
    /\ report # None
    /\ report[1].op = "analyze_temporal_patterns"
    /\ report[1].result.same_hour_duplicates = 1
    /\ report[1].result.same_day_duplicates = 1
    /\ \E a, b \in DOMAIN store :
           /\ a # b
           /\ store[a].url = store[b].url
           /\ store[a].timestamp # store[b].timestamp

\* ------------------------------------------------------------------ TorSpider
\* custom_settings['RETRY_TIMES']
RETRY_TIMES == 3

\* dict.get(key, 0) and dict[key] = value
dict_get(d, key) == IF key \in DOMAIN d THEN d[key] ELSE 0
dict_set(d, key, value) ==
    [k \in DOMAIN d \cup {key} |-> IF k = key THEN value ELSE d[k]]

\* TorSpider.__init__
TorSpiderNew == [failed_urls |-> {}, retry_counts |-> <<>>]

\* scrapy.Request(url, self.parse, errback=self.handle_error, dont_filter=...)
Request(url, dont_filter) == [url |-> url, dont_filter |-> dont_filter]

\* TorSpider.start_requests: one filtered request per start URL.
start_requests(urls) == {Request(url, FALSE) : url \in urls}

\* TorSpider.parse: the requests it yields for the links extracted from the
\* response, one per link (unique=True) that is not in failed_urls.
parse(s, links) ==
    {Request(link, FALSE) : link \in {l \in links : l \notin s.failed_urls}}

\* handle_error() that gives up only when the count has gone past RETRY_TIMES.
handle_error_gives_up_late(s, url) ==
    LET count == dict_get(s.retry_counts, url) + 1
        counts == dict_set(s.retry_counts, url, count)
    IN  IF count > RETRY_TIMES
        THEN [spider   |-> [failed_urls |-> s.failed_urls \cup {url}, retry_counts |-> counts],
              requests |-> {}]
        ELSE [spider   |-> [failed_urls |-> s.failed_urls, retry_counts |-> counts],
              requests |-> {Request(url, TRUE)}]

\* TorSpider.handle_error: the URL's count goes up by one; at RETRY_TIMES the
\* URL goes to failed_urls and nothing is yielded, below it the request is
\* yielded again, unfiltered.
handle_error(s, url) ==
    LET count == dict_get(s.retry_counts, url) + 1
        counts == dict_set(s.retry_counts, url, count)
    IN  IF count >= RETRY_TIMES
        THEN [spider   |-> [failed_urls |-> s.failed_urls \cup {url}, retry_counts |-> counts],
              requests |-> {}]
        ELSE [spider   |-> [failed_urls |-> s.failed_urls, retry_counts |-> counts],
              requests |-> {Request(url, TRUE)}]

\* The scheduler takes the requests a handler yielded: a request with
\* dont_filter=False for a URL the duplicate filter has seen is dropped.
\* `taken` is the URL of the request that was taken out and handled, 0 if none.
Accepted(requests) == {r \in requests : r.dont_filter \/ r.url \notin seen}
Enqueue(taken, requests) ==
    /\ scheduled' = [url \in Urls |->
                        scheduled[url] - (IF url = taken THEN 1 ELSE 0)
                        + Cardinality({r \in Accepted(requests) : r.url = url})]
    /\ seen' = seen \cup {r.url : r \in {a \in Accepted(requests) : ~a.dont_filter}}

SpiderFrame ==
    UNCHANGED <<dedupVars, bloomVars, concVars, cleanupVars, analyzerVars, cacheVars,
                restartVars>>

\* A spider after construction; the engine has not asked for its start
\* requests yet.
InitSpider ==
    /\ spider = TorSpiderNew
    /\ scheduled = [url \in Urls |-> 0]
    /\ seen = {}
    /\ retried = <<>>
    /\ handled = None
    /\ DedupIdle
    /\ BloomIdle
    /\ RestartIdle
    /\ CacheIdle
    /\ ConcIdle
    /\ CleanupIdle

\* The engine consumes start_requests().
StartRequests(urls) ==
    /\ handled = None
    /\ Enqueue(0, start_requests(urls))
    /\ handled' = <<[op |-> "start_requests", requests |-> start_requests(urls)]>>
    /\ UNCHANGED <<spider, retried>>
    /\ SpiderFrame

\* A scheduled request is downloaded and its response, with some links in
\* it, is handed to parse.
Parse(url, links) ==
    /\ handled # None
    /\ scheduled[url] > 0
    /\ LET requests == parse(spider, links)
       IN  /\ Enqueue(url, requests)
           /\ handled' = <<[op |-> "parse", url |-> url, links |-> links,
                            requests |-> requests]>>
    /\ UNCHANGED <<spider, retried>>
    /\ SpiderFrame

\* A scheduled request fails, in the download or with an HTTP error status,
\* and its failure is handed to handle_error.
HandleError(url) ==
    /\ handled # None
    /\ scheduled[url] > 0
    /\ LET h == handle_error(spider, url)
       IN  /\ spider' = h.spider
           /\ Enqueue(url, h.requests)
           /\ retried' = dict_set(retried, url,
                                  dict_get(retried, url) + Cardinality(h.requests))
           /\ handled' = <<[op |-> "handle_error", url |-> url, requests |-> h.requests]>>
    /\ SpiderFrame

NextSpider ==
    \/ \E urls \in SUBSET Urls : StartRequests(urls)
    \/ \E url \in Urls, links \in SUBSET Urls : Parse(url, links)
    \/ \E url \in Urls : HandleError(url)

SpecSpider == InitSpider /\ [][NextSpider]_vars

\* What holds of the retry chains in every state of a crawl: no URL has failed
\* more than RETRY_TIMES times or has been re-issued by handle_error
\* RETRY_TIMES times; the URLs in failed_urls are those that have failed
\* RETRY_TIMES times, and no request for one of them is scheduled; handle_error
\* yields a request only below RETRY_TIMES, and parse yields none for a URL
\* in failed_urls.
RetryChainBounded ==
    /\ \A url \in Urls :
          /\ dict_get(spider.retry_counts, url) <= RETRY_TIMES
          /\ dict_get(retried, url) < RETRY_TIMES
          /\ url \in spider.failed_urls <=>
                 dict_get(spider.retry_counts, url) = RETRY_TIMES
          /\ url \in spider.failed_urls => scheduled[url] = 0
    /\ (handled # None /\ handled[1].op = "handle_error") =>
          (handled[1].requests # {}) =
              (dict_get(spider.retry_counts, handled[1].url) < RETRY_TIMES)
    /\ (handled # None /\ handled[1].op = "parse") =>
          \A r \in handled[1].requests : r.url \notin spider.failed_urls

\* A step of the crawl never lowers a failure count and never takes a URL out
\* of failed_urls.
FailuresOnlyGrow ==
    /\ \A url \in Urls :
          dict_get(spider'.retry_counts, url) >= dict_get(spider.retry_counts, url)
    /\ spider.failed_urls \subseteq spider'.failed_urls

\* C39: a URL's failure count only increases; handle_error re-issues the
\* request only while the count is below RETRY_TIMES, so a URL's chain of
\* retries ends after at most RETRY_TIMES failures; from then on the URL stays
\* in failed_urls and parse issues no request for it from extracted links.
C39_RetryChainBounded == []RetryChainBounded /\ [][FailuresOnlyGrow]_vars

\* C39 witness: a URL has failed RETRY_TIMES times, after two retries, and is
\* in failed_urls; a page parsed afterwards linked to it and parse yielded no
\* request for it.
C39_Witness ==
    /\ handled # None
    /\ handled[1].op = "parse"
    /\ \E url \in handled[1].links :
          /\ url \in spider.failed_urls
          /\ dict_get(spider.retry_counts, url) = RETRY_TIMES
          /\ dict_get(retried, url) = RETRY_TIMES - 1
          /\ \A r \in handled[1].requests : r.url # url

====
